---- MODULE Spec2Model ----
(***************************************************************************)
(* TinyTcl (rcornwell/TinyTCL): the tokenizer, the scope frames, the       *)
(* evaluator and the control-flow commands of package tcl, as a state      *)
(* machine.  A Go string is a sequence of one-character strings; Go index  *)
(* i is index i + 1 here.  The Go call stack (eval, the command handlers   *)
(* that call eval again, userProc) is the variable stack; one step         *)
(* of the machine processes one token of the innermost eval, or resumes    *)
(* the handler a finished eval returns to.                                 *)
(***************************************************************************)
EXTENDS Integers, Sequences, FiniteSets, TLC

\* ---------------------------------------------------------------- bounds

\* EvalString calls the host makes on one interpreter.
MaxEvals == 2

\* Activations on the Go call stack beyond which the host gives up calling.
MaxStack == 24

\* ------------------------------------------------------------- constants

RetOk == 0
RetError == 1
RetReturn == 2
RetBreak == 3
RetContinue == 4
RetExit == 5

tokCmd == 1
tokEscape == 2
tokVar == 3
tokString == 4
tokEOL == 5
tokSpace == 6
tokOk == 7
tokError == 8
tokEOF == 9

\* p.char = 0: the scanner is past the end of the input.
NUL == "NUL"

\* ------------------------------------------------------- string helpers

CharAt(s, i) == s[i + 1]

\* s[a:b] of Go
Slice(s, a, b) == SubSeq(s, a + 1, b)

RECURSIVE Join(_, _)
Join(list, sep) ==
    IF Len(list) = 0 THEN <<>>
    ELSE IF Len(list) = 1 THEN list[1]
    ELSE list[1] \o sep \o Join(Tail(list), sep)

Letters ==
    {"a", "b", "c", "d", "e", "f", "g", "h", "i", "j", "k", "l", "m",
     "n", "o", "p", "q", "r", "s", "t", "u", "v", "w", "x", "y", "z",
     "A", "B", "C", "D", "E", "F", "G", "H", "I", "J", "K", "L", "M",
     "N", "O", "P", "Q", "R", "S", "T", "U", "V", "W", "X", "Y", "Z"}

Digits == {"0", "1", "2", "3", "4", "5", "6", "7", "8", "9"}

IsSpace(c) == c \in {" ", "\t", "\n", "\r", "\f"}

hex == <<"0", "1", "2", "3", "4", "5", "6", "7", "8", "9", "a", "b", "c", "d", "e", "f">>

UpperOf == <<"A", "B", "C", "D", "E", "F", "G", "H", "I", "J", "K", "L", "M",
             "N", "O", "P", "Q", "R", "S", "T", "U", "V", "W", "X", "Y", "Z">>

LowerOf == <<"a", "b", "c", "d", "e", "f", "g", "h", "i", "j", "k", "l", "m",
             "n", "o", "p", "q", "r", "s", "t", "u", "v", "w", "x", "y", "z">>

ToLowerChar(c) ==
    IF \E i \in 1..26 : UpperOf[i] = c
    THEN LowerOf[CHOOSE i \in 1..26 : UpperOf[i] = c]
    ELSE c

ToLower(s) == [i \in 1..Len(s) |-> ToLowerChar(s[i])]

\* strings.Index(hex, strings.ToLower(string(c)))
HexIndex(c) ==
    IF \E i \in 1..16 : hex[i] = ToLowerChar(c)
    THEN (CHOOSE i \in 1..16 : hex[i] = ToLowerChar(c)) - 1
    ELSE -1

\* string(rune(n)) for the characters the scripts can produce
Printable ==
    <<" ", "!", "\"", "#", "$", "%", "&", "'", "(", ")", "*", "+", ",", "-", ".", "/",
      "0", "1", "2", "3", "4", "5", "6", "7", "8", "9", ":", ";", "<", "=", ">", "?",
      "@", "A", "B", "C", "D", "E", "F", "G", "H", "I", "J", "K", "L", "M", "N", "O",
      "P", "Q", "R", "S", "T", "U", "V", "W", "X", "Y", "Z", "[", "\\", "]", "^", "_",
      "<96>", "a", "b", "c", "d", "e", "f", "g", "h", "i", "j", "k", "l", "m", "n", "o",
      "p", "q", "r", "s", "t", "u", "v", "w", "x", "y", "z", "{", "|", "}", "~">>

Chr(n) ==
    IF n >= 32 /\ n <= 126 THEN Printable[n - 31]
    ELSE IF n = 9 THEN "\t"
    ELSE IF n = 10 THEN "\n"
    ELSE IF n = 12 THEN "\f"
    ELSE IF n = 13 THEN "\r"
    ELSE "<" \o ToString(n) \o ">"

\* ------------------------------------------------------------ tokenizer

DefaultOptions ==
    [noCommands |-> FALSE, noEscapes |-> FALSE, noVars |-> FALSE,
     noEval |-> FALSE, subst |-> FALSE]

\* The parser struct; ok is getToken's boolean result and panic marks an
\* index past the end of the input (a Go runtime panic).
newParser(str, options) ==
    [str |-> str, pos |-> 0, nextPos |-> 1, char |-> CharAt(str, 0),
     start |-> 0, end |-> 0, inQuote |-> FALSE, token |-> tokEOL,
     options |-> options, ok |-> TRUE, panic |-> FALSE]

RECURSIVE next(_)
next(p) ==
    IF p.nextPos < Len(p.str)
    THEN LET q == [p EXCEPT !.pos = p.nextPos,
                            !.char = CharAt(p.str, p.nextPos),
                            !.nextPos = p.nextPos + 1]
         IN IF q.char = "\\" /\ q.nextPos < Len(q.str) /\ CharAt(q.str, q.nextPos) = "\n"
            THEN next([q EXCEPT !.nextPos = q.nextPos + 1])
            ELSE q
    ELSE [p EXCEPT !.char = NUL, !.pos = Len(p.str)]

\* next repeated over the characters before the first one of stop: the loops
\* of the parser step over them one by one and none is a backslash, so each
\* step is pos = nextPos, nextPos++; the last step, onto the character of
\* stop or past the end, is next itself.
nextRun(p, stop) ==
    LET at == {j \in p.nextPos..(Len(p.str) - 1) : CharAt(p.str, j) \in stop}
        to == IF at = {} THEN Len(p.str) ELSE CHOOSE j \in at : \A k \in at : j <= k
    IN IF to <= p.nextPos THEN next(p)
       ELSE next([p EXCEPT !.pos = to - 1, !.char = CharAt(p.str, to - 1), !.nextPos = to])

GetString(p) ==
    IF p.start = p.end THEN <<>> ELSE Slice(p.str, p.start, p.end)

parseIsSpace(p) == p.char \in {" ", "\t", "\n", "\r"}

RECURSIVE skipSeperator(_)
skipSeperator(p) == IF parseIsSpace(p) THEN skipSeperator(next(p)) ELSE p

parseSeperator(p) ==
    LET q == skipSeperator([p EXCEPT !.start = p.pos])
    IN [q EXCEPT !.end = q.pos, !.token = tokSpace, !.ok = TRUE]

RECURSIVE skipEol(_)
skipEol(p) == IF parseIsSpace(p) \/ p.char = ";" THEN skipEol(next(p)) ELSE p

parseEol(p) ==
    LET q == skipEol([p EXCEPT !.start = p.pos])
    IN [q EXCEPT !.end = q.pos, !.token = tokEOL, !.ok = TRUE]

\* The loop of parseCommand: stops on the closing bracket or at the end.
RECURSIVE scanCommand(_, _, _)
scanCommand(p, blevel, level) ==
    IF p.char = NUL THEN p
    ELSE IF p.char = "[" THEN
        scanCommand(next(p), blevel, IF blevel = 0 THEN level + 1 ELSE level)
    ELSE IF p.char = "]" THEN
        IF blevel = 0 /\ level = 1 THEN p
        ELSE scanCommand(next(p), blevel, IF blevel = 0 THEN level - 1 ELSE level)
    ELSE IF p.char = "\\" THEN scanCommand(next(next(p)), blevel, level)
    ELSE IF p.char = "{" THEN scanCommand(next(p), blevel + 1, level)
    ELSE IF p.char = "}" THEN
        scanCommand(next(p), IF blevel # 0 THEN blevel - 1 ELSE blevel, level)
    ELSE scanCommand(nextRun(p, {"[", "]", "\\", "{", "}"}), blevel, level)

parseCommand(p) ==
    LET p1 == next(p)
        q == scanCommand([p1 EXCEPT !.start = p1.pos], 0, 1)
    IN IF q.char # "]" THEN [q EXCEPT !.ok = FALSE]
       ELSE next([q EXCEPT !.end = q.pos, !.token = tokCmd, !.ok = TRUE])

isVarChar(p) == p.char \in Letters \/ p.char \in Digits \/ p.char = "_"

RECURSIVE skipVarChars(_)
skipVarChars(p) == IF isVarChar(p) THEN skipVarChars(next(p)) ELSE p

parseVar(p) ==
    LET p1 == next(p)
        brace == p1.char = "{"
        p2 == IF brace THEN next(p1) ELSE p1
        p3 == skipVarChars([p2 EXCEPT !.start = p2.pos])
        q == [p3 EXCEPT !.end = p3.pos]
    IN IF brace /\ q.char # "}" THEN [q EXCEPT !.ok = FALSE]
       ELSE IF ~brace /\ q.start = q.pos
            THEN [q EXCEPT !.start = q.pos, !.token = tokString, !.ok = TRUE]
            ELSE [q EXCEPT !.token = tokVar, !.ok = TRUE]

\* The loop of parseBrace.
RECURSIVE scanBrace(_, _)
scanBrace(p, level) ==
    IF p.char = "\\" THEN
        IF p.nextPos < Len(p.str) THEN scanBrace(next(next(p)), level)
        ELSE [p EXCEPT !.ok = FALSE]
    ELSE IF p.char = "}" THEN
        IF level = 1
        THEN next([p EXCEPT !.end = p.pos, !.token = tokString, !.ok = TRUE])
        ELSE scanBrace(next(p), level - 1)
    ELSE IF p.char = "{" THEN scanBrace(next(p), level + 1)
    ELSE IF p.char = NUL THEN [p EXCEPT !.ok = FALSE]
    ELSE scanBrace(nextRun(p, {"\\", "{", "}"}), level)

parseBrace(p) ==
    LET p1 == next(p)
    IN scanBrace([p1 EXCEPT !.start = p1.pos], 1)

\* The loop of parseString and what follows it.
RECURSIVE scanString(_)
scanString(p) ==
    LET stop == [p EXCEPT !.end = p.pos, !.token = tokEscape, !.ok = TRUE]
    IN IF p.char = NUL THEN
           IF p.inQuote THEN [p EXCEPT !.ok = FALSE] ELSE stop
       ELSE IF p.char = "\\" THEN
           IF ~p.options.noEscapes
           THEN IF p.nextPos < Len(p.str) THEN scanString(next(next(p)))
                ELSE [p EXCEPT !.ok = FALSE]
           ELSE scanString(next(p))
       ELSE IF p.char = "$" /\ ~p.options.noVars THEN stop
       ELSE IF p.char = "[" /\ ~p.options.noCommands THEN stop
       ELSE IF p.char \in {" ", "\t", ";", "\n"} /\ ~p.inQuote THEN stop
       ELSE IF p.char = "\"" /\ p.inQuote THEN next([stop EXCEPT !.inQuote = FALSE])
       ELSE scanString(nextRun(p, {"\\", "$", "[", " ", "\t", ";", "\n", "\""}))

parseString(p) ==
    LET newWord == p.token = tokSpace \/ p.token = tokEOL \/ p.token = tokString
    IN IF newWord /\ p.char = "{" /\ ~p.options.subst THEN parseBrace(p)
       ELSE LET p1 == IF newWord /\ p.char = "\""
                      THEN next([p EXCEPT !.inQuote = TRUE])
                      ELSE p
            IN scanString([p1 EXCEPT !.start = p1.pos])

RECURSIVE parseComment(_)
parseComment(p) ==
    IF p.char # "\n" /\ p.char # NUL THEN
        IF p.char = "\\" THEN
            IF p.pos + 1 >= Len(p.str) THEN [p EXCEPT !.ok = FALSE, !.panic = TRUE]
            ELSE IF CharAt(p.str, p.pos + 1) = "\n" THEN parseComment(next(next(p)))
            ELSE parseComment(next(p))
        ELSE parseComment(next(p))
    ELSE [p EXCEPT !.ok = TRUE]

RECURSIVE getToken(_)
getToken(p) ==
    IF p.char # NUL THEN
        IF p.char \in {" ", "\t"} THEN
            IF p.inQuote THEN parseString(p) ELSE parseSeperator(p)
        ELSE IF p.char \in {"\n", "\r", ";"} THEN
            IF p.inQuote THEN parseString(p) ELSE parseEol(p)
        ELSE IF p.char = "[" THEN
            LET r == parseCommand(p)
            IN IF r.ok /\ r.token = tokCmd /\ p.options.noCommands
               THEN [r EXCEPT !.start = r.start - 1, !.end = r.end + 1, !.token = tokString]
               ELSE r
        ELSE IF p.char = "$" THEN
            IF p.options.noVars THEN parseString(p) ELSE parseVar(p)
        ELSE IF p.char = "#" THEN
            IF p.token = tokEOL
            THEN LET c == parseComment(p) IN IF ~c.ok THEN c ELSE getToken(c)
            ELSE parseString(p)
        ELSE parseString(p)
    ELSE [p EXCEPT !.token = IF p.token # tokEOL /\ p.token # tokEOF THEN tokEOL ELSE tokEOF,
                   !.ok = TRUE]

\* ------------------------------------------------------ escape, numbers

\* hexStringToChar: the value and the number of digits used (-2: none).
\* Called with the empty string it indexes str[0]: panic.
hexStringToChar(str) ==
    IF Len(str) = 0 THEN [val |-> 0, n |-> 0, panic |-> TRUE]
    ELSE IF HexIndex(str[1]) < 0 THEN [val |-> 0, n |-> -2, panic |-> FALSE]
    ELSE IF Len(str) < 2 THEN [val |-> HexIndex(str[1]), n |-> 1, panic |-> FALSE]
    ELSE IF HexIndex(str[2]) < 0 THEN [val |-> HexIndex(str[1]), n |-> 1, panic |-> FALSE]
    ELSE [val |-> (HexIndex(str[1]) * 16 + HexIndex(str[2])) % 256, n |-> 2, panic |-> FALSE]

\* The loop of UnEscape; st holds result, num, digits, inEscape, inOctal.
RECURSIVE scanUnEscape(_, _, _)
scanUnEscape(str, pos, st) ==
    IF pos >= Len(str) THEN
        [s |-> IF st.digits > 0 THEN Append(st.result, Chr(st.num)) ELSE st.result,
         n |-> 0, panic |-> FALSE]
    ELSE
    LET ch == CharAt(str, pos)
        octal == st.inOctal /\ st.digits < 3 /\ ch \in {"0", "1", "2", "3", "4", "5", "6", "7"}
        s1 == IF st.inOctal /\ ~octal
              THEN [st EXCEPT !.inOctal = FALSE, !.digits = 0,
                              !.result = Append(st.result, Chr(st.num))]
              ELSE st
        named == CASE ch = "\n" -> <<>>
                   [] ch = "\\" -> <<"\\">>
                   [] ch = "a" -> <<Chr(7)>>
                   [] ch = "b" -> <<Chr(8)>>
                   [] ch = "e" -> <<Chr(27)>>
                   [] ch = "f" -> <<"\f">>
                   [] ch = "n" -> <<"\n">>
                   [] ch = "r" -> <<"\r">>
                   [] ch = "t" -> <<"\t">>
                   [] ch = "v" -> <<Chr(11)>>
                   [] OTHER -> <<ch>>
    IN IF octal THEN
           scanUnEscape(str, pos + 1,
               [st EXCEPT !.num = st.num * 8 + HexIndex(ch), !.digits = st.digits + 1])
       ELSE IF s1.inEscape THEN
           IF ch = "x" THEN
               LET h == hexStringToChar(Slice(str, pos + 1, Len(str)))
               IN IF h.panic THEN [s |-> <<>>, n |-> 0, panic |-> TRUE]
                  ELSE IF h.n < 0 THEN [s |-> <<>>, n |-> h.n, panic |-> FALSE]
                  ELSE scanUnEscape(str, pos + h.n + 1,
                           [s1 EXCEPT !.result = Append(s1.result, Chr(h.val)),
                                      !.inEscape = FALSE])
           ELSE IF ch = "0" THEN
               scanUnEscape(str, pos + 1,
                   [s1 EXCEPT !.inOctal = TRUE, !.num = 0, !.inEscape = FALSE])
           ELSE scanUnEscape(str, pos + 1,
                   [s1 EXCEPT !.result = s1.result \o named, !.inEscape = FALSE])
       ELSE IF ch = "\\" THEN scanUnEscape(str, pos + 1, [s1 EXCEPT !.inEscape = TRUE])
       ELSE scanUnEscape(str, pos + 1, [s1 EXCEPT !.result = Append(s1.result, ch)])

UnEscape(str) ==
    IF str = <<>> THEN [s |-> <<>>, n |-> -1, panic |-> FALSE]
    ELSE scanUnEscape(str, 0,
             [result |-> <<>>, num |-> 0, digits |-> 0, inEscape |-> FALSE, inOctal |-> FALSE])

RECURSIVE skipSpaces(_, _)
skipSpaces(str, pos) ==
    IF pos < Len(str) /\ IsSpace(CharAt(str, pos)) THEN skipSpaces(str, pos + 1) ELSE pos

\* The digit loop of ConvertStringToNumber.
RECURSIVE scanDigits(_, _, _, _, _)
scanDigits(str, base, pos, result, ok) ==
    IF pos < Len(str) /\ HexIndex(CharAt(str, pos)) # -1 /\ HexIndex(CharAt(str, pos)) < base
    THEN scanDigits(str, base, pos + 1, result * base + HexIndex(CharAt(str, pos)), TRUE)
    ELSE [val |-> result, pos |-> pos, ok |-> ok]

ConvertStringToNumber(str, base, pos) ==
    LET origPos == pos
        p1 == skipSpaces(str, pos)
        fail == [val |-> 0, pos |-> origPos, ok |-> FALSE]
    IN IF p1 >= Len(str) THEN fail
       ELSE
       LET neg == CharAt(str, p1) = "-"
           p2 == IF CharAt(str, p1) \in {"-", "+"} THEN p1 + 1 ELSE p1
       IN IF p2 >= Len(str) THEN fail
          ELSE
          LET zero == CharAt(str, p2) = "0"
              p3 == IF zero THEN p2 + 1 ELSE p2
          IN IF zero /\ p3 >= Len(str) THEN [val |-> 0, pos |-> p3, ok |-> TRUE]
             ELSE
             LET isHex == zero /\ CharAt(str, p3) \in {"x", "X"}
                 b == IF isHex THEN 16 ELSE IF zero THEN 8 ELSE base
                 p4 == IF isHex THEN p3 + 1 ELSE p3
             IN IF p4 >= Len(str) THEN [val |-> 0, pos |-> p4, ok |-> zero]
                ELSE LET d == scanDigits(str, b, p4, 0, zero)
                     IN IF d.ok
                        THEN [val |-> IF neg THEN -d.val ELSE d.val, pos |-> d.pos, ok |-> TRUE]
                        ELSE [val |-> d.val, pos |-> origPos, ok |-> FALSE]

\* The digit loop of ConvertNumberToString, for num > 0.
RECURSIVE prependDigits(_, _, _)
prependDigits(num, base, result) ==
    IF num = 0 THEN result
    ELSE prependDigits(num \div base, base, <<hex[(num % base) + 1]>> \o result)

\* For num < 0 in base 8 or 16 the loop of ConvertNumberToString reaches a
\* digit d = num % base that is negative (the first that is not 0), and
\* hex[d] is out of range.
digitPanics(num, base) == num < 0 /\ base \in {8, 16}

\* ConvertNumberToString where it returns.
ConvertNumberToString(num, base) ==
    LET prefix == IF base = 8 THEN <<"0">> ELSE IF base = 16 THEN <<"0", "x">> ELSE <<>>
        neg == base # 8 /\ base # 16 /\ num < 0
        n == IF neg THEN -num ELSE num
    IN IF n = 0 THEN (IF base # 8 THEN prefix \o <<"0">> ELSE prefix)
       ELSE IF neg THEN <<"-">> \o prependDigits(n, base, prefix)
       ELSE prependDigits(n, base, prefix)

\* ------------------------------------------------------------ the store

\* A Go map: a function from names.
EmptyMap == <<>>

Put(f, k, v) == [n \in (DOMAIN f) \cup {k} |-> IF n = k THEN v ELSE f[n]]

Del(f, k) == [n \in (DOMAIN f) \ {k} |-> f[n]]

\* &tclVar{value: value}.  owner (the frame the cell was created in) and
\* wf, wn (the frame and the name of the last write) are history fields.
newVar(value, owner, name) == [value |-> value, owner |-> owner, wf |-> owner, wn |-> name]

\* The interpreter t: env, level, cmds, result of the Tcl struct, with the
\* heap of frames (tclEnv, 0 is nil) and cells (tclVar) it points into.
\* t.aliases is a history field: the links upvar and global have made and
\* no unset, relink or return has ended since, as records [g, y, h, x]:
\* name y of frame g was linked to name x of frame h.
Names(a, frame, name) ==
    (a.g = frame /\ a.y = name) \/ (a.h = frame /\ a.x = name)

SetVarValue(t, name, value) ==
    LET f == t.frames[t.env]
    IN IF name \in DOMAIN f.vars
       THEN [t EXCEPT !.cells[f.vars[name]] =
                          [@ EXCEPT !.value = value, !.wf = t.env, !.wn = name]]
       ELSE [t EXCEPT !.cells = Append(@, newVar(value, t.env, name)),
                      !.frames[t.env].vars = Put(@, name, Len(t.cells) + 1)]

\* UnSetVar that removes the cell: every name of every frame bound to it.
UnSetVarCell(t, name) ==
    IF name \notin DOMAIN t.frames[t.env].vars THEN t
    ELSE [t EXCEPT !.frames =
                       [i \in DOMAIN t.frames |->
                           [t.frames[i] EXCEPT !.vars =
                               [n \in {k \in DOMAIN t.frames[i].vars :
                                          t.frames[i].vars[k] # t.frames[t.env].vars[name]}
                                   |-> t.frames[i].vars[n]]]],
                  !.aliases = {a \in @ : ~Names(a, t.env, name)}]

UnSetVar(t, name) ==
    [t EXCEPT !.frames[t.env].vars = Del(@, name),
              !.frames[t.env].local = Del(@, name),
              !.aliases = {a \in @ : ~Names(a, t.env, name)}]

\* GetVarValue that reads an unbound variable as the empty string.
GetVarValueEmpty(t, name) ==
    LET f == t.frames[t.env]
    IN IF name \in DOMAIN f.vars
       THEN [code |-> RetOk, value |-> t.cells[f.vars[name]].value]
       ELSE [code |-> RetOk, value |-> <<>>]

GetVarValue(t, name) ==
    LET f == t.frames[t.env]
    IN IF name \in DOMAIN f.vars
       THEN [code |-> RetOk, value |-> t.cells[f.vars[name]].value]
       ELSE [code |-> RetError, value |-> <<"v", "a", "l", "u", "e", ":", " ">> \o name \o <<" ", "n", "o", "t", " ", "f", "o", "u", "n", "d">>]

\* The frame records the depth at the time it is made, before pushEnv.
newEnv(t) ==
    [vars |-> EmptyMap, local |-> EmptyMap, parent |-> 0, level |-> t.level, args |-> <<>>]

\* e is the frame under construction with the cell heap; id is the place
\* the frame takes in the heap once pushed.
setVarNewEnv(e, id, name, value, local) ==
    [env |-> [e.env EXCEPT !.vars = Put(@, name, Len(e.cells) + 1),
                           !.local = Put(@, name, local)],
     cells |-> Append(e.cells, newVar(value, id, name))]

pushEnv(t, newenv) ==
    [t EXCEPT !.frames = Append(@, [newenv EXCEPT !.parent = t.env]),
              !.env = Len(t.frames) + 1,
              !.level = t.level + 1]

\* popEnv that leaves the variables of the frame it pops in the parent.
popEnvLeak(t) ==
    LET f == t.frames[t.env]
        pv == t.frames[f.parent].vars
    IN [t EXCEPT !.env = f.parent, !.level = t.level - 1,
                 !.frames[f.parent].vars =
                     [n \in (DOMAIN pv) \cup (DOMAIN f.vars) |->
                         IF n \in DOMAIN pv THEN pv[n] ELSE f.vars[n]],
                 !.aliases = {a \in @ : a.g # t.env /\ a.h # t.env}]

popEnv(t) ==
    [t EXCEPT !.env = t.frames[t.env].parent, !.level = t.level - 1,
              !.aliases = {a \in @ : a.g # t.env /\ a.h # t.env}]

RECURSIVE walkLevel(_, _, _)
walkLevel(frames, callFrame, n) ==
    IF n > 0 /\ frames[callFrame].parent # 0
    THEN walkLevel(frames, frames[callFrame].parent, n - 1)
    ELSE callFrame

getLevel(t, top, level) ==
    LET lvl == IF top THEN t.level - level ELSE level
    IN IF lvl < 0 THEN 0 ELSE walkLevel(t.frames, t.env, lvl)

SetResult(t, str) == [t EXCEPT !.result = str]

\* ------------------------------------------------------------ ParseArgs

ArgOptions ==
    [noCommands |-> TRUE, noEscapes |-> TRUE, noVars |-> TRUE,
     noEval |-> TRUE, subst |-> FALSE]

RECURSIVE collectArgs(_, _)
collectArgs(p, res) ==
    LET q == getToken(p)
    IN IF q.panic THEN [list |-> <<>>, panic |-> TRUE]
       ELSE IF ~q.ok THEN [list |-> <<>>, panic |-> FALSE]
       ELSE IF q.token = tokEOF THEN [list |-> res, panic |-> FALSE]
       ELSE IF q.token \in {tokString, tokVar, tokCmd, tokEscape}
       THEN collectArgs(q, Append(res, GetString(q)))
       ELSE collectArgs(q, res)

ParseArgs(str) ==
    IF str = <<>> THEN [list |-> << <<>> >>, panic |-> FALSE]
    ELSE collectArgs(newParser(str, ArgOptions), <<>>)

\* ------------------------------------------------- the Go call stack

\* m is the machine: the interpreter m.tcl, the activations m.stack of the
\* Go functions that are waiting for an eval they called, the position
\* m.pc ("run": the innermost eval reads its next token; "ret": a call has
\* returned m.ret to the activation on top; "idle": the host holds the
\* interpreter; "panic": the Go runtime stopped the program).
Top(m) == m.stack[Len(m.stack)]

Pop(m) == [m EXCEPT !.stack = SubSeq(@, 1, Len(@) - 1)]

Push(m, act) == [m EXCEPT !.stack = Append(@, act)]

Return(m, code) == [m EXCEPT !.pc = "ret", !.ret = code]

ReturnResult(m, code, str) ==
    [m EXCEPT !.pc = "ret", !.ret = code, !.tcl = SetResult(@, str)]

Panic(m) == [m EXCEPT !.pc = "panic"]

\* The entry of eval, up to the loop.  subs and cmdStart are history
\* fields: the start positions of the substitutions made for the command
\* being collected, and the position the scanner had after the last
\* dispatch.
eval(m, str, opts) ==
    LET m1 == [m EXCEPT !.tcl = SetResult(@, <<>>)]
    IN IF str = <<>> THEN Return(m1, RetOk)
       ELSE [Push(m1, [k |-> "eval", str |-> str, p |-> newParser(str, opts),
                       args |-> <<>>, prevToken |-> tokEOL, wait |-> "none",
                       subs |-> <<>>, cmdStart |-> 0])
             EXCEPT !.pc = "run"]

\* ------------------------------------------------------- basic commands

cmdBreak(m, args) == Return(m, RetBreak)

cmdContinue(m, args) == Return(m, RetContinue)

cmdError(m, args) ==
    IF Len(args) # 2 THEN ReturnResult(m, RetError, <<"e", "r", "r", "o", "r", " ", "m", "e", "s", "s", "a", "g", "e">>)
    ELSE ReturnResult(m, RetError, args[2])

cmdSet(m, args) ==
    IF Len(args) < 1 \/ Len(args) > 3 THEN ReturnResult(m, RetError, <<"s", "e", "t", " ", "n", "a", "m", "e", " ", "?", "v", "a", "l", "u", "e">>)
    ELSE IF Len(args) < 2 THEN Panic(m)
    ELSE LET t1 == IF Len(args) > 2 THEN SetVarValue(m.tcl, args[2], args[3]) ELSE m.tcl
             g == GetVarValue(t1, args[2])
         IN ReturnResult([m EXCEPT !.tcl = t1], g.code, g.value)

RECURSIVE unsetAll(_, _, _)
unsetAll(t, args, i) ==
    IF i > Len(args) THEN t ELSE unsetAll(UnSetVar(t, args[i]), args, i + 1)

cmdUnSet(m, args) == Return([m EXCEPT !.tcl = unsetAll(@, args, 2)], RetOk)

cmdExit(m, args) ==
    IF Len(args) = 1 THEN ReturnResult(m, RetExit, <<"0">>)
    ELSE ReturnResult(m, RetExit, args[2])

cmdReturn(m, args) ==
    IF Len(args) = 1 THEN ReturnResult(m, RetReturn, <<>>)
    ELSE IF Len(args) = 2 THEN ReturnResult(m, RetReturn, args[2])
    ELSE ReturnResult(m, RetError, <<"w", "r", "o", "n", "g", " ", "n", "u", "m", "b", "e", "r", " ", "o", "f", " ", "a", "r", "g", "u", "m", "e", "n", "t", "s", " ", "t", "o", " ", "r", "e", "t", "u", "r", "n">>)

cmdProc(m, args) ==
    IF Len(args) # 4 THEN ReturnResult(m, RetError, <<"p", "r", "o", "c", " ", "a", "r", "g", "s", " ", "b", "o", "d", "y">>)
    ELSE ReturnResult(
             [m EXCEPT !.tcl.cmds = Put(@, args[2],
                 [fn |-> "userProc", proc |-> TRUE, args |-> args[3], body |-> args[4]])],
             RetOk, <<>>)

cmdIncr(m, args) ==
    IF Len(args) < 2 THEN Panic(m)
    ELSE LET g == GetVarValue(m.tcl, args[2])
             a == ConvertStringToNumber(g.value, 10, 0)
             i == IF Len(args) = 3 THEN ConvertStringToNumber(args[3], 10, 0)
                  ELSE [val |-> 1, pos |-> 0, ok |-> TRUE]
         IN IF g.code # RetOk THEN Return(m, g.code)
            ELSE IF ~a.ok THEN ReturnResult(m, RetError, <<"n", "o", "t", " ", "a", " ", "n", "u", "m", "b", "e", "r">>)
            ELSE IF ~i.ok THEN ReturnResult(m, RetError, <<"i", "n", "c", "r", "e", "m", "e", "n", "t", " ", "n", "o", "t", " ", "a", " ", "n", "u", "m", "b", "e", "r">>)
            ELSE Return([m EXCEPT !.tcl = SetVarValue(@, args[2],
                             ConvertNumberToString(a.val + i.val, 10))], RetOk)

cmdAppend(m, args) ==
    IF Len(args) < 1 THEN ReturnResult(m, RetError, <<"a", "p", "p", "e", "n", "d", " ", "n", "a", "m", "e", " ", "?", "v", "a", "l", "u", "e">>)
    ELSE IF Len(args) < 2 THEN Panic(m)
    ELSE LET g == GetVarValue(m.tcl, args[2])
             tail == Join(SubSeq(args, 3, Len(args)), <<>>)
             str == IF g.code = RetOk THEN g.value \o tail ELSE tail
         IN ReturnResult([m EXCEPT !.tcl = SetVarValue(@, args[2], str)], RetOk, str)

\* ------------------------------------------------------- catch, subst, eval

cmdCatch(m, args) ==
    IF Len(args) < 2 \/ Len(args) > 3 THEN ReturnResult(m, RetError, <<"c", "a", "t", "c", "h", " ", "s", "c", "r", "i", "p", "t", " ", "?", "v", "a", "r", "N", "a", "m", "e">>)
    ELSE eval(Push(m, [k |-> "cmdCatch", args |-> args]), args[2], DefaultOptions)

\* cmdCatch that lets exit through.
cmdCatchExits(m) ==
    LET args == Top(m).args
        t1 == IF Len(args) = 3 THEN SetVarValue(m.tcl, args[3], m.tcl.result) ELSE m.tcl
    IN IF m.ret = RetExit THEN Return(Pop(m), RetExit)
       ELSE IF m.ret # RetOk THEN ReturnResult([Pop(m) EXCEPT !.tcl = t1], RetOk, <<"1">>)
       ELSE ReturnResult([Pop(m) EXCEPT !.tcl = t1], RetOk, <<"0">>)

\* cmdCatch from the return of its eval.
cmdCatchResume(m) ==
    LET args == Top(m).args
        t1 == IF Len(args) = 3 THEN SetVarValue(m.tcl, args[3], m.tcl.result) ELSE m.tcl
    IN IF m.ret # RetOk THEN ReturnResult([Pop(m) EXCEPT !.tcl = t1], RetOk, <<"1">>)
       ELSE ReturnResult([Pop(m) EXCEPT !.tcl = t1], RetOk, <<"0">>)

\* The handler returns what its eval returns: no activation of its own.
RECURSIVE substArgs(_, _, _, _)
substArgs(m, args, i, opts) ==
    IF i > Len(args) THEN ReturnResult(m, RetError, <<"s", "u", "b", "s", "t", " ", "s", "t", "r", "i", "n", "g">>)
    ELSE IF args[i] = <<"-", "n", "o", "b", "a", "c", "k", "l", "a", "s", "h", "e", "s">>
    THEN substArgs(m, args, i + 1, [opts EXCEPT !.noEscapes = TRUE])
    ELSE IF args[i] = <<"-", "n", "o", "v", "a", "r", "i", "a", "b", "l", "e", "s">>
    THEN substArgs(m, args, i + 1, [opts EXCEPT !.noVars = TRUE])
    ELSE IF args[i] = <<"-", "n", "o", "c", "o", "m", "m", "a", "n", "d", "s">>
    THEN substArgs(m, args, i + 1, [opts EXCEPT !.noCommands = TRUE])
    ELSE eval(m, args[i], opts)

cmdSubst(m, args) ==
    substArgs(m, args, 2, [DefaultOptions EXCEPT !.noEval = TRUE, !.subst = TRUE])

cmdEval(m, args) == eval(m, Join(SubSeq(args, 2, Len(args)), <<" ">>), DefaultOptions)

\* ------------------------------------------------------------ procedures

\* The binding loop of userProc; i and argNum are Go indices.
RECURSIVE bindArgs(_, _, _, _, _, _)
bindArgs(argList, i, args, argNum, e, id) ==
    IF i >= Len(argList) THEN [env |-> e.env, cells |-> e.cells, panic |-> FALSE]
    ELSE LET name == argList[i + 1]
         IN IF name = <<>> THEN [env |-> e.env, cells |-> e.cells, panic |-> FALSE]
            ELSE IF name = <<"a", "r", "g", "s">> /\ i = Len(argList)
            THEN LET e1 == setVarNewEnv(e, id, <<"a", "r", "g", "s">>,
                               Join(SubSeq(args, argNum + 1, Len(args)), <<" ">>), TRUE)
                 IN [env |-> e1.env, cells |-> e1.cells, panic |-> FALSE]
            ELSE IF argNum >= Len(args)
            THEN [env |-> e.env, cells |-> e.cells, panic |-> TRUE]
            ELSE bindArgs(argList, i + 1, args, argNum + 1,
                          setVarNewEnv(e, id, name, args[argNum + 1], TRUE), id)

\* userProc up to its eval of the body.  before is a history field: the
\* interpreter as the caller left it.
userProc(m, args, params, body) ==
    LET argList == ParseArgs(params)
        b == bindArgs(argList.list, 0, args, 1,
                      [env |-> newEnv(m.tcl), cells |-> m.tcl.cells],
                      Len(m.tcl.frames) + 1)
    IN IF argList.panic \/ b.panic THEN Panic(m)
       ELSE LET t1 == pushEnv([m.tcl EXCEPT !.cells = b.cells],
                              [b.env EXCEPT !.args = Join(args, <<" ">>)])
            IN eval(Push([m EXCEPT !.tcl = t1], [k |-> "userProc", before |-> m.tcl]),
                    body, DefaultOptions)

\* userProc that turns break into ok as it does return.
userProcResumeBreak(m) ==
    Return([Pop(m) EXCEPT !.tcl = popEnv(@)],
           IF m.ret \in {RetReturn, RetBreak} THEN RetOk ELSE m.ret)

\* userProc from the return of the body.
userProcResume(m) ==
    Return([Pop(m) EXCEPT !.tcl = popEnv(@)],
           IF m.ret = RetReturn THEN RetOk ELSE m.ret)

\* ------------------------------------------------------- upvar, uplevel

\* The linking loop with a copy of the value in place of the shared cell.
RECURSIVE linkVarsCopy(_, _, _, _)
linkVarsCopy(t, env, args, v) ==
    IF v + 1 >= Len(args) THEN t
    ELSE LET from == args[v + 1]
             to == args[v + 2]
         IN IF from \in DOMAIN t.frames[env].vars
            THEN linkVarsCopy(
                     [t EXCEPT !.cells = Append(@, newVar(t.cells[t.frames[env].vars[from]].value,
                                                          t.env, to)),
                               !.frames[t.env].vars = Put(@, to, Len(t.cells) + 1),
                               !.frames[t.env].local = Put(@, to, FALSE),
                               !.aliases = {a \in @ : ~Names(a, t.env, to)}
                                   \cup {[g |-> t.env, y |-> to, h |-> env, x |-> from]}],
                     env, args, v + 2)
            ELSE linkVarsCopy(t, env, args, v + 2)

\* The linking loop of cmdUpVar; v is a Go index.
RECURSIVE linkVars(_, _, _, _)
linkVars(t, env, args, v) ==
    IF v + 1 >= Len(args) THEN t
    ELSE LET from == args[v + 1]
             to == args[v + 2]
         IN IF from \in DOMAIN t.frames[env].vars
            THEN linkVars(
                     [t EXCEPT !.frames[t.env].vars = Put(@, to, t.frames[env].vars[from]),
                               !.frames[t.env].local = Put(@, to, FALSE),
                               !.aliases = {a \in @ : ~Names(a, t.env, to)}
                                   \cup {[g |-> t.env, y |-> to, h |-> env, x |-> from]}],
                     env, args, v + 2)
            ELSE linkVars(t, env, args, v + 2)

cmdUpVar(m, args) ==
    IF Len(args) < 3
    THEN ReturnResult(m, RetError, <<"u", "p", "v", "a", "r", " ", "?", "l", "e", "v", "e", "l", " ", "v", "a", "r", "n", "a", "m", "e", " ", "v", "a", "r", " ", "?", "o", "t", "h", "e", "r", "V", "a", "r", " ", "m", "y", "V", "a", "r">>)
    ELSE IF Len(args) > 3 /\ args[2] = <<>> THEN Panic(m)
    ELSE LET given == Len(args) > 3
             top == given /\ args[2][1] = "#"
             n == ConvertStringToNumber(args[2], 10, IF top THEN 1 ELSE 0)
             env == getLevel(m.tcl, top, IF given THEN n.val ELSE 1)
         IN IF given /\ ~n.ok THEN ReturnResult(m, RetError, <<"n", "o", "t", " ", "v", "a", "l", "i", "d", " ", "l", "e", "v", "e", "l", " ", "n", "u", "m", "b", "e", "r">>)
            ELSE IF env = 0 THEN ReturnResult(m, RetError, <<"n", "o", "t", " ", "v", "a", "l", "i", "d", " ", "l", "e", "v", "e", "l", " ", "n", "u", "m", "b", "e", "r">>)
            ELSE ReturnResult(
                     [m EXCEPT !.tcl = linkVars(@, env, args, IF given THEN 2 ELSE 1)],
                     RetOk, <<>>)

\* cmdUpLevel up to its eval.  before is a history field.
cmdUpLevel(m, args) ==
    IF Len(args) < 2 THEN ReturnResult(m, RetError, <<"u", "p", "l", "e", "v", "e", "l", " ", "?", "l", "e", "v", "e", "l", " ", "a", "r", "g", " ", "?", "a", "r", "g">>)
    ELSE IF Len(args) > 2 /\ args[2] = <<>> THEN Panic(m)
    ELSE LET given == Len(args) > 2
             top == given /\ args[2][1] = "#"
             n == ConvertStringToNumber(args[2], 10, IF top THEN 1 ELSE 0)
             cmd == IF given /\ n.ok THEN 2 ELSE 1
             level == IF given /\ n.ok THEN n.val ELSE 1
             str == Join(SubSeq(args, cmd + 1, Len(args)), <<" ">>)
             env == getLevel(m.tcl, top, level)
         IN IF top /\ ~n.ok THEN ReturnResult(m, RetError, <<"n", "o", "t", " ", "v", "a", "l", "i", "d", " ", "l", "e", "v", "e", "l", " ", "n", "u", "m", "b", "e", "r">>)
            ELSE IF Len(args) < cmd
            THEN ReturnResult(m, RetError, <<"u", "p", "l", "e", "v", "e", "l", " ", "?", "l", "e", "v", "e", "l", " ", "a", "r", "g", " ", "?", "a", "r", "g">>)
            ELSE IF env = 0 THEN ReturnResult(m, RetError, <<"n", "o", "t", " ", "v", "a", "l", "i", "d", " ", "l", "e", "v", "e", "l", " ", "n", "u", "m", "b", "e", "r">>)
            ELSE eval(Push([m EXCEPT !.tcl.env = env,
                                     !.tcl.level = m.tcl.frames[env].level],
                           [k |-> "cmdUpLevel", saveEnv |-> m.tcl.env,
                            saveLevel |-> m.tcl.level, before |-> m.tcl]),
                      str, DefaultOptions)

\* cmdUpLevel that restores the frame only after a script that ended ok.
cmdUpLevelResumeOk(m) ==
    IF m.ret = RetOk
    THEN Return([Pop(m) EXCEPT !.tcl.env = Top(m).saveEnv, !.tcl.level = Top(m).saveLevel],
                m.ret)
    ELSE Return(Pop(m), m.ret)

\* cmdUpLevel from the return of its eval.
cmdUpLevelResume(m) ==
    Return([Pop(m) EXCEPT !.tcl.env = Top(m).saveEnv, !.tcl.level = Top(m).saveLevel],
           m.ret)

\* The linking loop of cmdGlobal; v is a Go index.
RECURSIVE globalVars(_, _, _, _)
globalVars(m, env, args, v) ==
    IF v >= Len(args) THEN ReturnResult(m, RetOk, <<>>)
    ELSE LET name == args[v + 1]
             t == m.tcl
         IN IF name \notin DOMAIN t.frames[env].vars
            THEN ReturnResult(m, RetError, <<"v", "a", "r", "i", "a", "b", "l", "e", " ">> \o name \o <<" ", "n", "o", "t", " ", "f", "o", "u", "n", "d">>)
            ELSE globalVars(
                     [m EXCEPT !.tcl.frames[t.env].vars = Put(@, name, t.frames[env].vars[name]),
                               !.tcl.aliases = {a \in @ : ~Names(a, t.env, name)}
                                   \cup {[g |-> t.env, y |-> name, h |-> env, x |-> name]}],
                     env, args, v + 1)

cmdGlobal(m, args) ==
    IF m.tcl.level = 0 THEN ReturnResult(m, RetOk, <<>>)
    ELSE IF Len(args) < 2 THEN ReturnResult(m, RetError, <<"g", "l", "o", "b", "a", "l", " ", "v", "a", "r", "N", "a", "m", "e", " ", "?", "v", "a", "r", "N", "a", "m", "e">>)
    ELSE LET env == getLevel(m.tcl, TRUE, 0)
         IN IF env = 0 THEN ReturnResult(m, RetError, <<"n", "o", " ", "t", "o", "p", " ", "l", "e", "v", "e", "l", "?">>)
            ELSE globalVars(m, env, args, 1)

\* ------------------------------------------------------------------- if

\* The keys of truthValue that hold false; `if` takes every other result
\* of a condition, in the map or not, as true (v || !ok).
falseValue == {<<>>, <<"0">>, <<"n", "o">>, <<"f", "a", "l", "s", "e">>}

\* The first loop of cmdIf: the words after the first body; i is a Go index.
RECURSIVE ifSyntax(_, _)
ifSyntax(args, i) ==
    IF i >= Len(args) THEN TRUE
    ELSE IF args[i + 1] = <<"e", "l", "s", "e">> THEN TRUE
    ELSE IF args[i + 1] = <<"e", "l", "s", "e", "i", "f">> THEN ifSyntax(args, i + 3)
    ELSE FALSE

\* The top of the second loop of cmdIf, up to the eval of the condition
\* args[i].
ifCond(m, args, i) ==
    IF i >= Len(args) THEN Return(m, RetOk)
    ELSE eval(Push(m, [k |-> "cmdIf", args |-> args, i |-> i, at |-> "cond"]),
              <<"e", "x", "p", "r", " ">> \o args[i + 1], DefaultOptions)

\* tcl.eval(args[j], ..) of a body; i is the index of its condition.
ifBody(m, args, j, i) ==
    IF j >= Len(args) THEN Panic(m)
    ELSE eval(Push(m, [k |-> "cmdIf", args |-> args, i |-> i, at |-> "body"]),
              args[j + 1], DefaultOptions)

cmdIf(m, args) ==
    IF ~ifSyntax(args, 3) THEN ReturnResult(m, RetError, <<"i", "f", " ", "{", "}", " ", "s", "y", "n", "t", "a", "x", " ", "e", "r", "r", "o", "r">>)
    ELSE ifCond(m, args, 1)

\* cmdIf that goes on to the next clause after a body that ended ok.
cmdIfResumeOn(m) ==
    LET a == Top(m)
        m1 == Pop(m)
        i == a.i + 2
    IN IF m.ret # RetOk THEN Return(m1, m.ret)
       ELSE IF a.at = "cond" /\ m.tcl.result \notin falseValue
       THEN ifBody(m1, a.args, a.i + 1, a.i)
       ELSE IF i >= Len(a.args) THEN Return(m1, RetOk)
       ELSE IF a.args[i + 1] = <<"e", "l", "s", "e", "i", "f">> THEN ifCond(m1, a.args, i + 1)
       ELSE IF a.args[i + 1] = <<"e", "l", "s", "e">> THEN ifBody(m1, a.args, i + 1, i)
       ELSE ifCond(m1, a.args, i)

\* cmdIf from the return of a condition (at = "cond") or of a body.
cmdIfResume(m) ==
    LET a == Top(m)
        m1 == Pop(m)
        i == a.i + 2
    IN IF a.at = "body" THEN Return(m1, m.ret)
       ELSE IF m.ret # RetOk THEN Return(m1, m.ret)
       ELSE IF m.tcl.result \notin falseValue THEN ifBody(m1, a.args, a.i + 1, a.i)
       ELSE IF i >= Len(a.args) THEN Return(m1, RetOk)
       ELSE IF a.args[i + 1] = <<"e", "l", "s", "e", "i", "f">> THEN ifCond(m1, a.args, i + 1)
       ELSE IF a.args[i + 1] = <<"e", "l", "s", "e">> THEN ifBody(m1, a.args, i + 1, i)
       ELSE ifCond(m1, a.args, i)

\* ---------------------------------------------------------------- loops

\* v, ok := truthValue[tcl.result]; the loops go on when v && ok.
truthValue == {<<"1">>, <<"y", "e", "s">>, <<"t", "r", "u", "e">>}

cmdWhile(m, args) ==
    IF Len(args) # 3 THEN ReturnResult(m, RetError, <<"w", "h", "i", "l", "e", " ", "{", "c", "o", "n", "d", "}", " ", "{", "b", "o", "d", "y", "}">>)
    ELSE eval(Push(m, [k |-> "cmdWhile", cond |-> <<"e", "x", "p", "r", " ">> \o args[2],
                       body |-> args[3], at |-> "cond"]),
              <<"e", "x", "p", "r", " ">> \o args[2], DefaultOptions)

\* cmdWhile from the return of the condition (at = "cond") or of the body.
cmdWhileResume(m) ==
    LET a == Top(m)
        again(at, str) ==
            eval([m EXCEPT !.stack[Len(m.stack)].at = at], str, DefaultOptions)
    IN IF a.at = "cond" THEN
           IF m.ret # RetOk THEN ReturnResult(Pop(m), m.ret, <<>>)
           ELSE IF m.tcl.result \notin truthValue THEN ReturnResult(Pop(m), RetOk, <<>>)
           ELSE again("body", a.body)
       ELSE
           IF m.ret # RetContinue /\ m.ret # RetOk
           THEN ReturnResult(Pop(m), IF m.ret = RetBreak THEN RetOk ELSE m.ret, <<>>)
           ELSE again("cond", a.cond)

cmdFor(m, args) ==
    IF Len(args) # 5 THEN ReturnResult(m, RetError, <<"f", "o", "r", " ", "{", "i", "n", "i", "t", "}", " ", "{", "c", "o", "n", "d", "}", " ", "{", "i", "n", "c", "r", "}", " ", "{", "b", "o", "d", "y", "}">>)
    ELSE eval(Push(m, [k |-> "cmdFor", cond |-> <<"e", "x", "p", "r", " ">> \o args[3], incr |-> args[4],
                       body |-> args[5], at |-> "init"]),
              args[2], DefaultOptions)

\* cmdFor in which continue goes to the condition, past the increment.
cmdForResumeSkip(m) ==
    LET a == Top(m)
        again(at, str) ==
            eval([m EXCEPT !.stack[Len(m.stack)].at = at], str, DefaultOptions)
    IN IF a.at = "init" THEN
           IF m.ret # RetOk THEN Return(Pop(m), m.ret) ELSE again("cond", a.cond)
       ELSE IF a.at = "cond" THEN
           IF m.ret # RetOk THEN ReturnResult(Pop(m), m.ret, <<>>)
           ELSE IF m.tcl.result \notin truthValue THEN ReturnResult(Pop(m), RetOk, <<>>)
           ELSE again("body", a.body)
       ELSE IF a.at = "body" THEN
           IF m.ret = RetOk THEN again("incr", a.incr)
           ELSE IF m.ret = RetContinue THEN again("cond", a.cond)
           ELSE IF m.ret = RetBreak THEN Return(Pop(m), RetOk)
           ELSE Return(Pop(m), m.ret)
       ELSE
           IF m.ret # RetOk THEN ReturnResult(Pop(m), m.ret, <<>>)
           ELSE again("cond", a.cond)

\* cmdFor from the return of the initialisation, the condition, the body
\* or the increment.
cmdForResume(m) ==
    LET a == Top(m)
        again(at, str) ==
            eval([m EXCEPT !.stack[Len(m.stack)].at = at], str, DefaultOptions)
    IN IF a.at = "init" THEN
           IF m.ret # RetOk THEN Return(Pop(m), m.ret) ELSE again("cond", a.cond)
       ELSE IF a.at = "cond" THEN
           IF m.ret # RetOk THEN ReturnResult(Pop(m), m.ret, <<>>)
           ELSE IF m.tcl.result \notin truthValue THEN ReturnResult(Pop(m), RetOk, <<>>)
           ELSE again("body", a.body)
       ELSE IF a.at = "body" THEN
           IF m.ret \in {RetOk, RetContinue} THEN again("incr", a.incr)
           ELSE IF m.ret = RetBreak THEN Return(Pop(m), RetOk)
           ELSE Return(Pop(m), m.ret)
       ELSE
           IF m.ret # RetOk THEN ReturnResult(Pop(m), m.ret, <<>>)
           ELSE again("cond", a.cond)

\* One pass of foreach over the variables of list i from variable j on;
\* s holds the interpreter, the lists with their indexes, and done.
RECURSIVE assignVars(_, _, _)
assignVars(s, i, j) ==
    IF i > Len(s.lists) THEN s
    ELSE IF j > Len(s.lists[i].vars) THEN assignVars(s, i + 1, 1)
    ELSE LET l == s.lists[i]
             v == l.vars[j]
         IN IF l.index < Len(l.list)
            THEN assignVars([s EXCEPT !.tcl = SetVarValue(@, v, l.list[l.index + 1]),
                                      !.done = FALSE,
                                      !.lists[i].index = l.index + 1], i, j + 1)
            ELSE assignVars([s EXCEPT !.tcl = SetVarValue(@, v, <<"{", "}">>)], i, j + 1)

\* The body of the outer loop of cmdForEach up to its eval of the body.
forEachPass(m, lists, body) ==
    LET s == assignVars([tcl |-> m.tcl, lists |-> lists, done |-> TRUE], 1, 1)
        m1 == [m EXCEPT !.tcl = s.tcl]
    IN IF s.done THEN ReturnResult(m1, RetOk, <<>>)
       ELSE eval(Push(m1, [k |-> "cmdForEach", lists |-> s.lists, body |-> body]),
                 body, DefaultOptions)

\* The pairs of variable list and value list; i is a Go index.
RECURSIVE forEachLists(_, _, _)
forEachLists(args, i, lists) ==
    IF i + 1 >= Len(args) THEN [lists |-> lists, i |-> i, panic |-> FALSE]
    ELSE LET v == ParseArgs(args[i + 1])
             l == ParseArgs(args[i + 2])
         IN IF v.panic \/ l.panic THEN [lists |-> lists, i |-> i, panic |-> TRUE]
            ELSE forEachLists(args, i + 2,
                     Append(lists, [vars |-> v.list, list |-> l.list, index |-> 0]))

cmdForEach(m, args) ==
    LET m1 == IF Len(args) < 4 THEN [m EXCEPT !.tcl = SetResult(@, <<"f", "o", "r", "e", "a", "c", "h", " ", "v", "a", "r", " ", "l", "i", "s", "t", " ", "b", "o", "d", "y">>)]
              ELSE m
        ls == forEachLists(args, 1, <<>>)
    IN IF ls.panic \/ ls.i >= Len(args) THEN Panic(m1)
       ELSE forEachPass(m1, ls.lists, args[ls.i + 1])

\* cmdForEach from the return of the body.
cmdForEachResume(m) ==
    IF m.ret \in {RetOk, RetContinue} THEN forEachPass(Pop(m), Top(m).lists, Top(m).body)
    ELSE IF m.ret = RetBreak THEN ReturnResult(Pop(m), RetOk, <<>>)
    ELSE ReturnResult(Pop(m), m.ret, <<>>)

\* ----------------------------------------------------------------- expr

relationOprs == {<<">">>, <<">", "=">>, <<"<">>, <<"<", "=">>, <<"=", "=">>, <<"!", "=">>}

\* The byte value of a character.
Ord(c) ==
    IF \E n \in 1..Len(Printable) : Printable[n] = c
    THEN 31 + CHOOSE n \in 1..Len(Printable) : Printable[n] = c
    ELSE IF c = "\t" THEN 9
    ELSE IF c = "\n" THEN 10
    ELSE IF c = "\f" THEN 12
    ELSE IF c = "\r" THEN 13
    ELSE 0

\* strings.Compare
RECURSIVE Compare(_, _)
Compare(a, b) ==
    IF a = <<>> /\ b = <<>> THEN 0
    ELSE IF a = <<>> THEN -1
    ELSE IF b = <<>> THEN 1
    ELSE IF Ord(a[1]) < Ord(b[1]) THEN -1
    ELSE IF Ord(a[1]) > Ord(b[1]) THEN 1
    ELSE Compare(Tail(a), Tail(b))

stringCmp(m, args) ==
    LET cmp == Compare(args[2], args[4])
        opr == args[3]
        yes == \/ opr = <<">">> /\ cmp > 0
               \/ opr = <<">", "=">> /\ cmp >= 0
               \/ opr = <<"<">> /\ cmp < 0
               \/ opr = <<"<", "=">> /\ cmp <= 0
               \/ opr = <<"=", "=">> /\ cmp = 0
               \/ opr = <<"!", "=">> /\ cmp # 0
    IN ReturnResult(m, RetOk, IF yes THEN <<"1">> ELSE <<"0">>)

\* a & b of Go on integers of either sign.
RECURSIVE BitAnd(_, _)
BitAnd(a, b) ==
    IF a < 0 /\ b < 0 THEN -1 - ((-1 - a) + (-1 - b) - BitAnd(-1 - a, -1 - b))
    ELSE IF a < 0 THEN b - BitAnd(b, -1 - a)
    ELSE IF b < 0 THEN a - BitAnd(a, -1 - b)
    ELSE IF a = 0 \/ b = 0 THEN 0
    ELSE 2 * BitAnd(a \div 2, b \div 2) + (IF a % 2 = 1 /\ b % 2 = 1 THEN 1 ELSE 0)

\* a / b of Go: the quotient truncated toward zero.
Quo(a, b) ==
    IF (a < 0) = (b < 0)
    THEN (IF a < 0 THEN -a ELSE a) \div (IF b < 0 THEN -b ELSE b)
    ELSE -((IF a < 0 THEN -a ELSE a) \div (IF b < 0 THEN -b ELSE b))

binaryOp(m, opr, aval, bval) ==
    LET bool(c) == IF c THEN 1 ELSE 0
        known == {<<"+">>, <<"-">>, <<"*">>, <<"/">>, <<"a", "n", "d">>, <<"o", "r">>, <<"x", "o", "r">>, <<"m", "a", "x">>, <<"m", "i", "n">>,
                  <<">">>, <<">", "=">>, <<"<">>, <<"<", "=">>, <<"=", "=">>, <<"!", "=">>}
        val == CASE opr = <<"+">> -> aval + bval
                 [] opr = <<"-">> -> aval - bval
                 [] opr = <<"*">> -> aval * bval
                 [] opr = <<"/">> -> Quo(aval, bval)
                 [] opr = <<"a", "n", "d">> -> BitAnd(aval, bval)
                 [] opr = <<"o", "r">> -> aval + bval - BitAnd(aval, bval)
                 [] opr = <<"x", "o", "r">> -> aval + bval - 2 * BitAnd(aval, bval)
                 [] opr = <<"m", "a", "x">> -> IF aval < bval THEN bval ELSE aval
                 [] opr = <<"m", "i", "n">> -> IF aval > bval THEN bval ELSE aval
                 [] opr = <<">">> -> bool(aval > bval)
                 [] opr = <<">", "=">> -> bool(aval >= bval)
                 [] opr = <<"<">> -> bool(aval < bval)
                 [] opr = <<"<", "=">> -> bool(aval <= bval)
                 [] opr = <<"=", "=">> -> bool(aval = bval)
                 [] opr = <<"!", "=">> -> bool(aval # bval)
    IN IF opr \notin known THEN ReturnResult(m, RetError, <<"i", "n", "v", "a", "l", "i", "d", " ", "o", "p", "e", "r", "a", "t", "o", "r">>)
       ELSE IF opr = <<"/">> /\ bval = 0 THEN Panic(m)
       ELSE ReturnResult(m, RetOk, ConvertNumberToString(val, 10))

\* The end of the operator that starts at pos.
RECURSIVE skipOperator(_, _)
skipOperator(str, pos) ==
    IF pos < Len(str) /\ CharAt(str, pos) \notin Digits /\ ~IsSpace(CharAt(str, pos))
    THEN skipOperator(str, pos + 1)
    ELSE pos

cmdMath(m, args) ==
    eval(Push(m, [k |-> "cmdMath", args |-> args]),
         ToLower(Join(SubSeq(args, 2, Len(args)), <<" ">>)),
         [DefaultOptions EXCEPT !.noEval = TRUE])

\* cmdMath from the return of its eval.
cmdMathResume(m) ==
    LET args == Top(m).args
        m1 == Pop(m)
        str == m.tcl.result
        a == ConvertStringToNumber(str, 10, 0)
        binary == a.ok
        relation == Len(args) = 4 /\ args[3] \in relationOprs
        from == skipSpaces(str, a.pos)
        pos == skipOperator(str, from)
        opr == Slice(str, from, pos)
        b == ConvertStringToNumber(str, 10, pos)
        unary == {<<"-">>, <<"n", "e", "g">>, <<"n", "o", "t">>, <<"i", "n", "v">>, <<"a", "b", "s">>, <<"b", "o", "o", "l">>, <<"+">>}
        aval == CASE opr \in {<<"-">>, <<"n", "e", "g">>} -> -b.val
                  [] opr = <<"n", "o", "t">> -> IF b.val = 0 THEN 1 ELSE 0
                  [] opr = <<"i", "n", "v">> -> -1 - b.val
                  [] opr = <<"a", "b", "s">> -> IF b.val < 0 THEN -a.val ELSE a.val
                  [] opr = <<"b", "o", "o", "l">> -> IF b.val # 0 THEN 1 ELSE a.val
                  [] OTHER -> a.val
    IN IF m.ret # RetOk THEN Return(m1, m.ret)
       ELSE IF ~binary /\ relation THEN stringCmp(m1, args)
       ELSE IF opr = <<>> THEN
           IF binary THEN ReturnResult(m1, RetOk, ConvertNumberToString(a.val, 10))
           ELSE ReturnResult(m1, RetError, <<"o", "p", "e", "r", "a", "t", "o", "r", " ", "n", "o", "t", " ", "s", "p", "e", "c", "i", "f", "i", "e", "d">>)
       ELSE IF ~b.ok THEN
           IF relation THEN stringCmp(m1, args)
           ELSE ReturnResult(m1, RetError, <<"n", "o", "t", " ", "a", " ", "n", "u", "m", "b", "e", "r">>)
       ELSE IF binary THEN binaryOp(m1, opr, a.val, b.val)
       ELSE IF opr \notin unary THEN ReturnResult(m1, RetError, <<"i", "n", "v", "a", "l", "i", "d", " ", "o", "p", "e", "r", "a", "t", "o", "r">>)
       ELSE ReturnResult(m1, RetOk, ConvertNumberToString(aval, 10))

\* --------------------------------------------------------- StringEscape

\* strings.ContainsAny(string(ch), " \t\n\r\v[]$"); the vertical tab is not
\* among the characters of the model.
EscapeChars == {" ", "\t", "\n", "\r", "[", "]", "$"}

\* The first loop of StringEscape from Go index i on: st holds braces, sp and
\* hasBlank; trailing is set by a backslash at the end of str.
RECURSIVE scanEscape(_, _, _)
scanEscape(str, i, st) ==
    IF i >= Len(str) THEN st
    ELSE LET ch == str[i + 1]
             special == ch \in EscapeChars
             st1 == [st EXCEPT !.sp = @ \/ special \/ ch = "\\",
                               !.hasBlank = @ \/ (special /\ st.braces = 0),
                               !.braces = IF ch = "{" THEN @ + 1
                                          ELSE IF ch = "}" THEN @ - 1 ELSE @]
         IN IF ch = "\\" /\ i + 1 = Len(str) THEN [st1 EXCEPT !.trailing = TRUE]
            ELSE scanEscape(str, i + 1, st1)

\* The second loop of StringEscape: a backslash before every brace that
\* does not follow a backslash.
RECURSIVE escapeBraces(_, _, _)
escapeBraces(str, sp, res) ==
    IF str = <<>> THEN res
    ELSE escapeBraces(Tail(str), str[1] = "\\",
                      IF ~sp /\ str[1] \in {"{", "}"}
                      THEN res \o <<"\\", str[1]>> ELSE Append(res, str[1]))

\* StringEscape after its first loop returned st.
escapeWith(str, st) ==
    LET braced == str[1] = "{" /\ str[Len(str)] = "}"
    IN IF st.trailing THEN <<"{">> \o str \o <<"}">>
       ELSE IF st.sp /\ st.braces # 0 /\ ~braced THEN escapeBraces(str, FALSE, <<>>)
       ELSE IF st.sp /\ (st.hasBlank \/ ~braced) THEN <<"{">> \o str \o <<"}">>
       ELSE str

StringEscape(str) ==
    IF str = <<>> THEN <<"{", "}">>
    ELSE escapeWith(str, scanEscape(str, 0, [braces |-> 0, sp |-> FALSE,
                                              hasBlank |-> FALSE, trailing |-> FALSE]))

\* ------------------------------------------------- list, llength, lindex

\* The loop of cmdList over args[1:].
RECURSIVE escapeAll(_)
escapeAll(items) ==
    IF items = <<>> THEN <<>> ELSE <<StringEscape(items[1])>> \o escapeAll(Tail(items))

\* str[1:] of the empty str, when there are no items, is out of range.
cmdList(m, args) ==
    IF Len(args) < 2 THEN Panic(m)
    ELSE ReturnResult(m, RetOk, Join(escapeAll(Tail(args)), <<" ">>))

llengthOf(m, list) ==
    IF list.panic THEN Panic(m)
    ELSE ReturnResult(m, RetOk, ConvertNumberToString(Len(list.list), 10))

cmdLLength(m, args) ==
    IF Len(args) # 2 THEN ReturnResult(m, RetError, <<"l", "l", "e", "n", "g", "t", "h", " ", "l", "i", "s", "t">>)
    ELSE IF args[2] = <<>> THEN ReturnResult(m, RetOk, <<"0">>)
    ELSE llengthOf(m, ParseArgs(args[2]))

\* The digit loop of convertListIndex.
RECURSIVE indexDigits(_, _, _, _)
indexDigits(str, pos, result, r) ==
    IF pos < Len(str) /\ HexIndex(CharAt(str, pos)) # -1 /\ HexIndex(CharAt(str, pos)) < 10
    THEN indexDigits(str, pos + 1, result * 10 + HexIndex(CharAt(str, pos)), TRUE)
    ELSE [result |-> result, pos |-> pos, ok |-> r, panic |-> FALSE]

\* convertListIndex after `end` was looked for at pos.
indexFrom(str, listMax, pos, end, d) ==
    IF pos >= Len(str) THEN [result |-> 0, pos |-> pos, ok |-> FALSE, panic |-> FALSE]
    ELSE IF d.ok /\ end THEN [d EXCEPT !.result = listMax - d.result - 1]
    ELSE d

\* The loop that skips spaces reads str[pos] before it compares pos with
\* len(str): an index that ends in spaces is read past its end.
RECURSIVE convertListIndex(_, _, _)
convertListIndex(str, listMax, pos) ==
    IF pos >= Len(str) THEN [result |-> 0, pos |-> pos, ok |-> FALSE, panic |-> TRUE]
    ELSE IF IsSpace(CharAt(str, pos)) THEN convertListIndex(str, listMax, pos + 1)
    ELSE IF Len(str) - pos >= 3 /\ SubSeq(str, pos + 1, pos + 3) = <<"e", "n", "d">>
    THEN IF pos + 3 >= Len(str) \/ CharAt(str, pos + 3) # "-"
         THEN [result |-> listMax - 1, pos |-> pos + 3, ok |-> TRUE, panic |-> FALSE]
         ELSE indexFrom(str, listMax, pos + 4, TRUE, indexDigits(str, pos + 4, 0, FALSE))
    ELSE indexFrom(str, listMax, pos, FALSE, indexDigits(str, pos, 0, FALSE))

RECURSIVE lindexPos(_, _, _, _)

\* list = tcl.ParseArgs(list[i]), then the next pass of the inner loop.
lindexList(l, index, pos) ==
    IF l.panic THEN [list |-> <<>>, pending |-> TRUE, panic |-> TRUE]
    ELSE lindexPos(l.list, index, pos, TRUE)

\* The body of the inner loop of cmdLIndex after convertListIndex returned c.
lindexStep(list, index, pending, c) ==
    IF c.panic THEN [list |-> list, pending |-> pending, panic |-> TRUE]
    ELSE IF ~c.ok THEN [list |-> list, pending |-> pending, panic |-> FALSE]
    ELSE IF c.result >= Len(list) THEN lindexPos(list, index, c.pos, TRUE)
    ELSE IF c.result < 0 THEN [list |-> list, pending |-> pending, panic |-> TRUE]
    ELSE lindexList(ParseArgs(list[c.result + 1]), index, c.pos)

\* The inner loop `for pos < len(index)` of cmdLIndex.
lindexPos(list, index, pos, pending) ==
    IF pos >= Len(index) THEN [list |-> list, pending |-> pending, panic |-> FALSE]
    ELSE lindexStep(list, index, pending, convertListIndex(index, Len(list), pos))

\* The outer loop of cmdLIndex from args[i] on, after the inner loop
\* returned st for args[i - 1]; res is what the loop appended to it.
RECURSIVE lindexArgs(_, _, _)
lindexArgs(args, i, st) ==
    IF st.panic \/ i >= Len(args) THEN [st EXCEPT !.list = IF st.pending THEN @ ELSE <<>>]
    ELSE IF args[i + 1] = <<>> THEN [st EXCEPT !.pending = FALSE]
    ELSE lindexArgs(args, i + 1, lindexPos(st.list, args[i + 1], 0, st.pending))

lindexResult(m, st) ==
    IF st.panic THEN Panic(m) ELSE cmdList(m, <<<<"l", "i", "s", "t">>>> \o st.list)

\* cmdLIndex with the list parsed: cmdList builds the result.
lindexOf(m, args, l) ==
    IF l.panic THEN Panic(m)
    ELSE lindexResult(m, lindexArgs(args, 2, [list |-> l.list, pending |-> FALSE, panic |-> FALSE]))

cmdLIndex(m, args) ==
    IF Len(args) < 2 THEN ReturnResult(m, RetError, <<"l", "i", "n", "d", "e", "x", " ", "l", "i", "s", "t", " ", "?", "i", "n", "d", "e", "x">>)
    ELSE IF Len(args) < 3 THEN ReturnResult(m, RetOk, args[2])
    ELSE lindexOf(m, args, ParseArgs(args[2]))

\* ------------------------------------------------------------------- lset

RECURSIVE lsetPos(_, _, _, _)

\* list = tcl.ParseArgs(list[i]), then the next pass of the inner loop.
lsetList(l, index, pos, stk) ==
    IF l.panic THEN [list |-> <<>>, stk |-> stk, err |-> FALSE, panic |-> TRUE]
    ELSE lsetPos(l.list, index, pos, stk)

\* The body of the inner loop after convertListIndex returned c.
lsetStep(list, index, stk, c) ==
    IF c.panic THEN [list |-> list, stk |-> stk, err |-> FALSE, panic |-> TRUE]
    ELSE IF ~c.ok THEN [list |-> list, stk |-> stk, err |-> FALSE, panic |-> FALSE]
    ELSE IF c.result < 0 \/ c.result >= Len(list)
    THEN [list |-> list, stk |-> stk, err |-> TRUE, panic |-> FALSE]
    ELSE lsetList(ParseArgs(list[c.result + 1]), index, c.pos,
                  Append(stk, [list |-> list, index |-> c.result]))

\* The inner loop of cmdLSet over the index word from pos on; stk is the
\* stack of lists and indices, err the return of `list index out of range`.
lsetPos(list, index, pos, stk) ==
    IF pos >= Len(index) THEN [list |-> list, stk |-> stk, err |-> FALSE, panic |-> FALSE]
    ELSE lsetStep(list, index, stk, convertListIndex(index, Len(list), pos))

\* The loop over the index arguments; i is a Go index.
RECURSIVE lsetArgs(_, _, _)
lsetArgs(args, i, st) ==
    IF i >= Len(args) - 1 \/ st.err \/ st.panic THEN st
    ELSE lsetArgs(args, i + 1, lsetPos(st.list, args[i + 1], 0, st.stk))

\* The loop from the bottom of the stack to the top; i elements are left.
RECURSIVE lsetValue(_, _, _)
lsetValue(stk, i, value) ==
    IF i = 0 THEN value
    ELSE lsetValue(stk, i - 1,
             Join([j \in 1..Len(stk[i].list) |->
                      StringEscape(IF j = stk[i].index + 1 THEN value ELSE stk[i].list[j])],
                  <<" ">>))

\* cmdLSet from the scan of the indices on.
lsetFrom(m, newList, st) ==
    IF st.panic THEN Panic(m)
    ELSE IF st.err THEN ReturnResult(m, RetError, <<"l", "i", "s", "t", " ", "i", "n", "d", "e", "x", " ", "o", "u", "t", " ", "o", "f", " ", "r", "a", "n", "g", "e">>)
    ELSE ReturnResult(m, RetOk, lsetValue(st.stk, Len(st.stk), newList))

\* cmdLSet after GetVarValue returned g and ParseArgs of the value l.
lsetOf(m, args, g, l) ==
    IF g.code # RetOk THEN Return(m, g.code)
    ELSE IF l.panic THEN Panic(m)
    ELSE lsetFrom(m, args[Len(args)],
                  lsetArgs(args, 2, [list |-> l.list, stk |-> <<>>, err |-> FALSE, panic |-> FALSE]))

cmdLSet(m, args) ==
    IF Len(args) < 3 THEN Return([m EXCEPT !.tcl.result = <<"l", "s", "e", "t", " ", "v", "a", "r", "N", "a", "m", "e", " ", "?", "i", "n", "d", "e", "x", " ", "l", "i", "s", "t">>], RetError)
    ELSE IF Len(args) = 3 \/ args[3] = <<>>
    THEN ReturnResult([m EXCEPT !.tcl = SetVarValue(@, args[2], args[Len(args)])],
                      RetOk, args[Len(args)])
    ELSE lsetOf(m, args, GetVarValue(m.tcl, args[2]),
                ParseArgs(GetVarValue(m.tcl, args[2]).value))

\* ---------------------------------------------------------------- lsort

\* The option loop of cmdLSort from Go index i on.  The calls made here do
\* not use -command, whose comparisons evaluate a script.
RECURSIVE sortOptions(_, _, _)
sortOptions(args, i, st) ==
    IF i >= Len(args) THEN [st EXCEPT !.i = i]
    ELSE IF args[i + 1] = <<"-", "i", "n", "c", "r", "e", "a", "s", "i", "n", "g">>
    THEN sortOptions(args, i + 1, [st EXCEPT !.reverse = FALSE])
    ELSE IF args[i + 1] = <<"-", "d", "e", "c", "r", "e", "a", "s", "i", "n", "g">>
    THEN sortOptions(args, i + 1, [st EXCEPT !.reverse = TRUE])
    ELSE IF args[i + 1] = <<"-", "a", "s", "c", "i", "i">>
    THEN sortOptions(args, i + 1, [st EXCEPT !.integer = FALSE])
    ELSE IF args[i + 1] = <<"-", "i", "n", "t", "e", "g", "e", "r">>
    THEN sortOptions(args, i + 1, [st EXCEPT !.integer = TRUE])
    ELSE [st EXCEPT !.i = i]

\* Tcl.order without a command: whether a goes before b.
order(integer, reverse, a, b) ==
    LET ia == ConvertStringToNumber(a, 10, 0)
        ib == ConvertStringToNumber(b, 10, 0)
    IN IF integer /\ (~ia.ok \/ ~ib.ok) THEN [ord |-> FALSE, err |-> RetError]
       ELSE IF integer THEN [ord |-> reverse # (ia.val < ib.val), err |-> RetOk]
       ELSE [ord |-> reverse # (Compare(a, b) < 0), err |-> RetOk]

\* The inner loop of cmdLSort: key moves down from Go index k + 1.
RECURSIVE sortInsert(_, _, _, _)
sortInsert(list, key, k, st) ==
    IF k < 0 THEN [list |-> [list EXCEPT ![k + 2] = key], err |-> RetOk]
    ELSE LET o == order(st.integer, st.reverse, key, list[k + 1])
         IN IF o.err # RetOk THEN [list |-> list, err |-> o.err]
            ELSE IF ~o.ord THEN [list |-> [list EXCEPT ![k + 2] = key], err |-> RetOk]
            ELSE sortInsert([list EXCEPT ![k + 2] = list[k + 1]], key, k - 1, st)

\* The outer loop of cmdLSort from Go index j on.
RECURSIVE sortFrom(_, _, _)
sortFrom(list, j, st) ==
    IF j >= Len(list) THEN [list |-> list, err |-> RetOk]
    ELSE LET s == sortInsert(list, list[j + 1], j - 1, st)
         IN IF s.err # RetOk THEN s ELSE sortFrom(s.list, j + 1, st)

\* The end of cmdLSort for the list s sorted, or the error of a comparison.
sortResult(m, s) ==
    IF s.err # RetOk THEN Return(m, s.err)
    ELSE cmdList(m, <<<<"l", "i", "s", "t">>>> \o s.list)

sortList(m, l, st) ==
    IF l.panic THEN Panic(m) ELSE sortResult(m, sortFrom(l.list, 1, st))

cmdLSort(m, args) ==
    LET st == sortOptions(args, 1, [i |-> 1, integer |-> FALSE, reverse |-> FALSE])
    IN IF st.i >= Len(args) THEN Panic(m)
       ELSE sortList(m, ParseArgs(args[st.i + 1]), st)

\* ---------------------------------------------------------------- Match

\* Match returns r; panic marks an index past the end of the pattern or
\* the target (a Go runtime panic).
MatchResult(r) == [r |-> r, panic |-> FALSE, spent |-> FALSE]

MatchPanic == [r |-> 0, panic |-> TRUE, spent |-> FALSE]

\* spent is a history field: a call made for the result was entered with
\* depth 0.
Spent(b, res) == [res EXCEPT !.spent = @ \/ b]

\* strings.ToLower(string(a)) < strings.ToLower(string(b)) under ignoreCase,
\* a < b otherwise.
ByteLess(a, b, ignoreCase) ==
    IF ignoreCase THEN Ord(ToLowerChar(a)) < Ord(ToLowerChar(b)) ELSE Ord(a) < Ord(b)

RECURSIVE Match(_, _, _, _)
RECURSIVE matchLoop(_, _, _, _, _, _)
RECURSIVE matchClass(_, _, _, _, _, _)

\* The default case of the switch: pat[i] against target[k]; i and k are Go
\* indices.
matchLiteral(pat, target, ignoreCase, depth, i, k) ==
    IF k >= Len(target) THEN MatchPanic
    ELSE IF ignoreCase /\ ToLowerChar(pat[i + 1]) # ToLowerChar(target[k + 1])
    THEN MatchResult(0)
    ELSE IF ~ignoreCase /\ pat[i + 1] # target[k + 1] THEN MatchResult(0)
    ELSE matchLoop(pat, target, ignoreCase, depth, i + 1, k + 1)

\* The `*` case after the recursive call returned r: pat[i] stays the `*`.
matchStar(pat, target, ignoreCase, depth, i, k, r) ==
    IF r.panic THEN MatchPanic
    ELSE IF r.r > 0 THEN r
    ELSE IF k >= Len(target) THEN Spent(r.spent, MatchResult(0))
    ELSE Spent(r.spent, matchLoop(pat, target, ignoreCase, depth, i, k + 1))

\* The loop of the `[` case from pat[i] on.  last keeps the character read
\* before a backslash is resolved, and the character after `-` is read as
\* the next first.
matchClass(pat, target, ignoreCase, depth, i, k) ==
    IF i >= Len(pat) THEN matchLoop(pat, target, ignoreCase, depth, i, k)
    ELSE IF pat[i + 1] = "]" THEN matchLoop(pat, target, ignoreCase, depth, i + 1, k)
    ELSE IF pat[i + 1] = "\\" /\ i + 1 >= Len(pat) THEN MatchPanic
    ELSE LET last == pat[i + 1]
             first == IF pat[i + 1] = "\\" THEN pat[i + 2] ELSE pat[i + 1]
             i2 == IF pat[i + 1] = "\\" THEN i + 2 ELSE i + 1
         IN IF i2 >= Len(pat) THEN MatchPanic
            ELSE IF k >= Len(target) THEN MatchPanic
            ELSE IF ByteLess(target[k + 1], first, ignoreCase)
                    \/ ByteLess(last, target[k + 1], ignoreCase)
            THEN MatchResult(0)
            ELSE matchClass(pat, target, ignoreCase, depth,
                            IF pat[i2 + 1] = "-" THEN i2 + 1 ELSE i2, k)

\* The loop `for i < len(pat)` of Match.
matchLoop(pat, target, ignoreCase, depth, i, k) ==
    IF i >= Len(pat) THEN MatchResult(k)
    ELSE IF pat[i + 1] = "*" THEN
        IF k > Len(target) THEN MatchPanic
        ELSE matchStar(pat, target, ignoreCase, depth, i, k,
                       Match(SubSeq(pat, i + 2, Len(pat)), SubSeq(target, k + 1, Len(target)),
                             ignoreCase, depth - 1))
    ELSE IF pat[i + 1] = "?" THEN
        IF k >= Len(target) THEN MatchResult(0)
        ELSE matchLoop(pat, target, ignoreCase, depth, i + 1, k + 1)
    ELSE IF pat[i + 1] = "[" THEN matchClass(pat, target, ignoreCase, depth, i + 1, k)
    ELSE IF pat[i + 1] = "\\" THEN
        IF i + 1 >= Len(pat) THEN MatchResult(-2)
        ELSE IF k >= Len(target) THEN MatchResult(0)
        ELSE matchLiteral(pat, target, ignoreCase, depth, i + 1, k)
    ELSE matchLiteral(pat, target, ignoreCase, depth, i, k)

Match(pat, target, ignoreCase, depth) ==
    IF pat = <<>> THEN MatchResult(IF target = <<>> THEN 0 ELSE 1)
    ELSE IF depth = 0 THEN Spent(TRUE, MatchResult(-1))
    ELSE matchLoop(pat, target, ignoreCase, depth, 0, 0)

\* --------------------------------------------------------------- switch

\* The option loop of cmdSwitch from Go index i on: the index of the value
\* and the way to match.  -regexp is kept apart from -exact and -glob.
RECURSIVE switchOptions(_, _, _)
switchOptions(args, i, st) ==
    IF i >= Len(args) THEN [st EXCEPT !.i = i]
    ELSE IF args[i + 1] = <<"-", "e", "x", "a", "c", "t">>
    THEN switchOptions(args, i + 1, [st EXCEPT !.exact = TRUE, !.regexpr = FALSE])
    ELSE IF args[i + 1] = <<"-", "g", "l", "o", "b">>
    THEN switchOptions(args, i + 1, [st EXCEPT !.exact = FALSE, !.regexpr = FALSE])
    ELSE IF args[i + 1] = <<"-", "r", "e", "g", "e", "x", "p">>
    THEN switchOptions(args, i + 1, [st EXCEPT !.regexpr = TRUE])
    ELSE IF args[i + 1] = <<"-", "-">> THEN [st EXCEPT !.i = i + 1]
    ELSE [st EXCEPT !.i = i]

\* regexp.MatchString for a pattern of letters and digits: pattern occurs
\* in str.
matchString(pattern, str) ==
    \E k \in 0..(Len(str) - Len(pattern)) : Slice(str, k, k + Len(pattern)) = pattern

\* for i <= len(matchList) && matchList[i+1] == "-" { i += 2 }; i is a Go
\* index, -1 stands for the index out of range.
RECURSIVE switchBody(_, _)
switchBody(matchList, i) ==
    IF i > Len(matchList) THEN i
    ELSE IF i + 1 >= Len(matchList) THEN -1
    ELSE IF matchList[i + 2] = <<"-">> THEN switchBody(matchList, i + 2)
    ELSE i

\* tcl.eval(matchList[j], ..) of the body chosen.
switchEval(m, matchList, j) ==
    IF j >= Len(matchList) THEN Panic(m)
    ELSE eval(Push(m, [k |-> "cmdSwitch", body |-> matchList[j + 1]]),
              matchList[j + 1], DefaultOptions)

\* The loop over the pairs of cmdSwitch; i is a Go index.
RECURSIVE switchScan(_, _, _, _, _)
switchScan(m, st, str, matchList, i) ==
    IF i >= Len(matchList) THEN ReturnResult(m, RetOk, <<>>)
    ELSE IF matchList[i + 1] = <<"d", "e", "f", "a", "u", "l", "t">> THEN switchEval(m, matchList, i + 1)
    ELSE LET r == Match(matchList[i + 1], str, FALSE, Len(str))
             match == IF st.regexpr THEN matchString(matchList[i + 1], str)
                      ELSE IF st.exact THEN matchList[i + 1] = str
                      ELSE r.r # 0
             j == switchBody(matchList, i)
         IN IF ~st.regexpr /\ ~st.exact /\ r.panic THEN Panic(m)
            ELSE IF ~st.regexpr /\ ~st.exact /\ r.r < 0
            THEN ReturnResult(m, RetError, <<"N", "e", "s", "t", "i", "n", "g", " ", "l", "e", "v", "e", "l", " ", "e", "x", "c", "e", "e", "d", "e", "d">>)
            ELSE IF ~match THEN switchScan(m, st, str, matchList, i + 2)
            ELSE IF j < 0 THEN Panic(m)
            ELSE switchEval(m, matchList, j + 1)

cmdSwitch(m, args) ==
    LET st == switchOptions(args, 1, [i |-> 1, exact |-> TRUE, regexpr |-> FALSE])
        i == st.i + 1
        list == IF i + 1 = Len(args) THEN ParseArgs(args[i + 1])
                ELSE [list |-> SubSeq(args, i + 1, Len(args)), panic |-> FALSE]
    IN IF st.i >= Len(args) THEN ReturnResult(m, RetError, <<"s", "w", "i", "t", "c", "h", " ", "b", "o", "d", "y">>)
       ELSE IF i + 1 # Len(args) /\ ~(i + 2 < Len(args))
       THEN ReturnResult(m, RetError, <<"s", "w", "i", "t", "c", "h", " ", "b", "o", "d", "y">>)
       ELSE IF list.panic THEN Panic(m)
       ELSE switchScan(m, st, args[st.i + 1], list.list, 0)

\* cmdSwitch from the return of the eval of the body.
cmdSwitchResume(m) == Return(Pop(m), m.ret)

\* ----------------------------------------------------------------- info

\* tcl.cmds[name] = nil
NilCmd == [fn |-> "nil", proc |-> FALSE]

\* The orders of iteration over a Go map that are told apart.
MapOrders == 6

\* The names in the order of their bytes.
RECURSIVE SortedNames(_)
SortedNames(S) ==
    IF S = {} THEN <<>>
    ELSE LET least == CHOOSE n \in S : \A o \in S : Compare(n, o) <= 0
         IN <<least>> \o SortedNames(S \ {least})

Reverse(s) == [i \in 1..Len(s) |-> s[Len(s) + 1 - i]]

\* `for v := range map`: Go leaves the order open.  Order k of the names is
\* a rotation of the sorted names, reversed for k >= 3: every order of a
\* map of up to three names.
MapRange(S, k) ==
    IF S = {} THEN <<>>
    ELSE LET s == SortedNames(S)
             r == (k % 3) % Len(s)
             t == SubSeq(s, r + 1, Len(s)) \o SubSeq(s, 1, r)
         IN IF k % 6 >= 3 THEN Reverse(t) ELSE t

\* The filter keeps the order of the range.
RECURSIVE Filter(_, _)
Filter(s, Keep) ==
    IF s = <<>> THEN <<>>
    ELSE (IF s[1] \in Keep THEN <<s[1]>> ELSE <<>>) \o Filter(Tail(s), Keep)

listVars(t, local, k) ==
    LET f == t.frames[t.env]
    IN Filter(MapRange(DOMAIN f.vars, k),
              {v \in DOMAIN f.vars : ~local \/ (v \in DOMAIN f.local /\ f.local[v])})

listGlobals(t, k) == MapRange(DOMAIN t.frames[getLevel(t, TRUE, 0)].vars, k)

\* tcl.cmds[v].proc on a nil entry is a nil dereference.
listCommands(t, user, k) ==
    IF user /\ \E v \in DOMAIN t.cmds : t.cmds[v] = NilCmd
    THEN [list |-> <<>>, panic |-> TRUE]
    ELSE [list |-> Filter(MapRange(DOMAIN t.cmds, k),
                          {v \in DOMAIN t.cmds : ~user \/ t.cmds[v].proc}),
          panic |-> FALSE]

RECURSIVE matchPattern(_, _, _)
matchPattern(list, pattern, res) ==
    IF list = <<>> THEN [list |-> res, panic |-> FALSE]
    ELSE IF Match(pattern, list[1], FALSE, Len(list[1])).panic
    THEN [list |-> <<>>, panic |-> TRUE]
    ELSE matchPattern(Tail(list), pattern,
                      IF Match(pattern, list[1], FALSE, Len(list[1])).r = 1
                      THEN Append(res, list[1]) ELSE res)

\* The return of cmdInfo with the list made.
infoJoin(m, l) ==
    IF l.panic THEN Panic(m) ELSE ReturnResult(m, RetOk, Join(l.list, <<" ">>))

\* The end of cmdInfo for the subcommands that make a list.
infoList(m, args, l) ==
    IF l.panic THEN Panic(m)
    ELSE IF Len(args) > 2 THEN infoJoin(m, matchPattern(l.list, args[3], <<>>))
    ELSE infoJoin(m, l)

\* info args and info body: what has the entry of the procedure.
infoProc(m, args, field) ==
    IF Len(args) # 3 THEN ReturnResult(m, RetError, <<"i", "n", "f", "o", " ", "b", "o", "d", "y", " ", "p", "r", "o", "c", "n", "a", "m", "e">>)
    ELSE IF args[3] \notin DOMAIN m.tcl.cmds \/ m.tcl.cmds[args[3]] = NilCmd THEN Panic(m)
    ELSE IF ~m.tcl.cmds[args[3]].proc THEN ReturnResult(m, RetError, args[3] \o <<" ", "n", "o", "t", " ", "a", " ", "p", "r", "o", "c">>)
    ELSE ReturnResult(m, RetOk, IF field = "args" THEN m.tcl.cmds[args[3]].args
                                ELSE m.tcl.cmds[args[3]].body)

infoLevel(m, args) ==
    IF Len(args) > 3 THEN
        LET n == ConvertStringToNumber(args[3], 10, 0)
            env == getLevel(m.tcl, n.val >= 0, IF n.val < 0 THEN -n.val ELSE n.val)
        IN IF ~n.ok THEN ReturnResult(m, RetError, <<"i", "n", "v", "a", "l", "i", "d", " ", "l", "e", "v", "e", "l">>)
           ELSE IF env = 0 THEN Panic(m)
           ELSE ReturnResult(m, RetOk, m.tcl.frames[env].args)
    ELSE ReturnResult(m, RetOk, ConvertNumberToString(m.tcl.level, 10))

\* k is the order in which the Go runtime ranges over the map.
cmdInfo(m, args, k) ==
    IF Len(args) < 2 THEN ReturnResult(m, RetError, <<"i", "n", "f", "o", " ", "f", "u", "n", "c", "t", "i", "o", "n">>)
    ELSE IF args[2] = <<"a", "r", "g", "s">> THEN infoProc(m, args, "args")
    ELSE IF args[2] = <<"b", "o", "d", "y">> THEN infoProc(m, args, "body")
    ELSE IF args[2] = <<"c", "o", "m", "m", "a", "n", "d", "s">> THEN infoList(m, args, listCommands(m.tcl, FALSE, k))
    ELSE IF args[2] = <<"e", "x", "i", "s", "t", "s">> THEN
        IF Len(args) < 3 THEN Panic(m)
        ELSE IF Len(args) < 4 /\ GetVarValue(m.tcl, args[3]).code = RetOk
        THEN ReturnResult(m, RetOk, <<"1">>)
        ELSE ReturnResult(m, RetOk, <<"0">>)
    ELSE IF args[2] = <<"g", "l", "o", "b", "a", "l", "s">>
    THEN infoList(m, args, [list |-> listGlobals(m.tcl, k), panic |-> FALSE])
    ELSE IF args[2] = <<"l", "e", "v", "e", "l">> THEN infoLevel(m, args)
    ELSE IF args[2] = <<"l", "o", "c", "a", "l", "s">>
    THEN infoList(m, args, [list |-> listVars(m.tcl, TRUE, k), panic |-> FALSE])
    ELSE IF args[2] = <<"p", "r", "o", "c", "s">> THEN infoList(m, args, listCommands(m.tcl, TRUE, k))
    ELSE IF args[2] = <<"v", "a", "r", "s">>
    THEN infoList(m, args, [list |-> listVars(m.tcl, FALSE, k), panic |-> FALSE])
    ELSE infoList(m, args, [list |-> <<>>, panic |-> FALSE])

\* ------------------------------------------------------ rename, variable

\* tcl.cmds[args[1]] = nil leaves the name in the map with a nil entry.
cmdRename(m, args) ==
    IF Len(args) < 2 \/ Len(args) > 3 THEN ReturnResult(m, RetError, <<"r", "e", "n", "a", "m", "e", " ", "O", "l", "d", "N", "a", "m", "e", " ", "?", "n", "e", "w", "N", "a", "m", "e">>)
    ELSE IF args[2] \notin DOMAIN m.tcl.cmds
    THEN ReturnResult(m, RetError, <<"c", "o", "m", "m", "a", "n", "d", " ">> \o args[2] \o <<" ", "n", "o", "t", " ", "f", "o", "u", "n", "d">>)
    ELSE IF Len(args) = 3
    THEN ReturnResult([m EXCEPT !.tcl.cmds = Put(Put(@, args[2], NilCmd), args[3],
                                                 m.tcl.cmds[args[2]])],
                      RetOk, <<>>)
    ELSE ReturnResult([m EXCEPT !.tcl.cmds = Put(@, args[2], NilCmd)], RetOk, <<>>)

\* The loop of cmdVariable; v is a Go index.
RECURSIVE variablePairs(_, _, _)
variablePairs(t, args, v) ==
    IF v >= Len(args) THEN t
    ELSE IF v + 1 < Len(args)
    THEN variablePairs(SetVarValue(t, args[v + 1], args[v + 2]), args, v + 2)
    ELSE variablePairs(t, args, v + 2)

cmdVariable(m, args) ==
    IF Len(args) < 2 THEN ReturnResult(m, RetError, <<"v", "a", "r", "i", "a", "b", "l", "e", " ", "n", "a", "m", "e", " ", "?", "v", "a", "l", "u", "e">>)
    ELSE ReturnResult([m EXCEPT !.tcl = variablePairs(@, args, 1)], RetOk, <<>>)

\* ----------------------------------------------------------------- eval

\* tclInitCommands, for the commands modelled here.
Registered ==
    { <<<<"a", "p", "p", "e", "n", "d">>, "cmdAppend">>, <<<<"b", "r", "e", "a", "k">>, "cmdBreak">>, <<<<"c", "a", "t", "c", "h">>, "cmdCatch">>,
      <<<<"c", "o", "n", "t", "i", "n", "u", "e">>, "cmdContinue">>, <<<<"e", "r", "r", "o", "r">>, "cmdError">>, <<<<"e", "v", "a", "l">>, "cmdEval">>,
      <<<<"e", "x", "i", "t">>, "cmdExit">>, <<<<"e", "x", "p", "r">>, "cmdMath">>, <<<<"f", "o", "r">>, "cmdFor">>,
      <<<<"f", "o", "r", "e", "a", "c", "h">>, "cmdForEach">>, <<<<"g", "l", "o", "b", "a", "l">>, "cmdGlobal">>, <<<<"i", "n", "c", "r">>, "cmdIncr">>,
      <<<<"p", "r", "o", "c">>, "cmdProc">>, <<<<"r", "e", "t", "u", "r", "n">>, "cmdReturn">>, <<<<"s", "e", "t">>, "cmdSet">>,
      <<<<"s", "u", "b", "s", "t">>, "cmdSubst">>, <<<<"u", "p", "l", "e", "v", "e", "l">>, "cmdUpLevel">>, <<<<"u", "p", "v", "a", "r">>, "cmdUpVar">>,
      <<<<"u", "n", "s", "e", "t">>, "cmdUnSet">>, <<<<"w", "h", "i", "l", "e">>, "cmdWhile">>,
      <<<<"r", "e", "n", "a", "m", "e">>, "cmdRename">>, <<<<"v", "a", "r", "i", "a", "b", "l", "e">>, "cmdVariable">>,
      <<<<"i", "n", "f", "o">>, "cmdInfo">>, <<<<"i", "f">>, "cmdIf">>, <<<<"s", "w", "i", "t", "c", "h">>, "cmdSwitch">> }

tclInitCommands ==
    [name \in {r[1] : r \in Registered} |->
        [fn |-> (CHOOSE r \in Registered : r[1] = name)[2], proc |-> FALSE]]

\* doCommand; fn is the Go function of the entry found.
doCommand(m, args, fn(_, _)) ==
    IF Len(args) = 0 THEN Return(m, RetOk)
    ELSE IF args[1] \notin DOMAIN m.tcl.cmds
    THEN ReturnResult(m, RetError, <<"u", "n", "a", "b", "l", "e", " ", "t", "o", " ", "f", "i", "n", "d", " ", "c", "o", "m", "m", "a", "n", "d", ":", " ">> \o args[1])
    ELSE IF m.tcl.cmds[args[1]].fn = "nil" THEN Panic([m EXCEPT !.tcl = SetResult(@, <<>>)])
    ELSE fn([m EXCEPT !.tcl = SetResult(@, <<>>)], args)

\* The closure cmdProc registers.
callUserProc(m, args) ==
    userProc(m, args, m.tcl.cmds[args[1]].args, m.tcl.cmds[args[1]].body)

\* tcl.cmds[name] = nil has no function to call.
callNil(m, args) == Panic(m)

\* The end of the loop body of eval: val joins the words of the command.
addWord(m, a, val) ==
    IF a.prevToken = tokSpace \/ a.prevToken = tokEOL
    THEN [m EXCEPT !.pc = "run",
                   !.stack[Len(m.stack)] =
                       [a EXCEPT !.args = Append(@, val), !.prevToken = a.p.token,
                                 !.wait = "none"]]
    ELSE IF a.args = <<>> THEN Panic(m)
    ELSE [m EXCEPT !.pc = "run",
                   !.stack[Len(m.stack)] =
                       [a EXCEPT !.args[Len(a.args)] = @ \o val, !.prevToken = a.p.token,
                                 !.wait = "none"]]

\* One turn of the loop of eval for a token that is not the end of a
\* line; q is the parser after getToken.
evalToken(m, q) ==
    LET a == [Top(m) EXCEPT !.p = q]
        val == GetString(q)
        setTop(b) == [m EXCEPT !.stack[Len(m.stack)] = b]
    IN IF q.panic THEN Panic(m)
       ELSE IF ~q.ok THEN ReturnResult(Pop(m), RetError, <<"e", "r", "r", "o", "r", " ", "p", "a", "r", "s", "i", "n", "g", ":", " ">> \o a.str)
       ELSE IF q.token = tokEOF THEN Return(Pop(m), RetOk)
       ELSE IF q.token = tokVar THEN
           IF GetVarValue(m.tcl, val).code # RetOk
           THEN ReturnResult(Pop(m), RetError, GetVarValue(m.tcl, val).value)
           ELSE addWord(m, [a EXCEPT !.subs = Append(@, q.start)],
                        GetVarValue(m.tcl, val).value)
       ELSE IF q.token = tokCmd THEN
           eval(setTop([a EXCEPT !.subs = Append(@, q.start), !.wait = "tokCmd"]),
                val, DefaultOptions)
       ELSE IF q.token = tokEscape THEN
           IF UnEscape(val).panic THEN Panic(m) ELSE addWord(m, a, UnEscape(val).s)
       ELSE IF q.token = tokSpace THEN setTop([a EXCEPT !.prevToken = tokSpace])
       ELSE addWord(m, a, val)

\* The turn of the loop of eval at the end of a line under noEval.
evalJoin(m, q) ==
    [m EXCEPT !.tcl = SetResult(@, Join(Top(m).args, <<" ">>)),
              !.stack[Len(m.stack)] =
                  [Top(m) EXCEPT !.p = q, !.prevToken = tokEOL, !.args = <<>>]]

\* The turn of the loop of eval at the end of a line, up to the return of
\* doCommand or to the eval the handler calls.
evalCommand(m, q, fn(_, _)) ==
    doCommand([m EXCEPT !.stack[Len(m.stack)] =
                   [Top(m) EXCEPT !.p = q, !.prevToken = tokEOL, !.wait = "cmd"]],
              Top(m).args, fn)

\* eval that returns the break of a substitution under noEval as it is.
evalAfterSubstBreak(m) ==
    LET a == Top(m)
    IN IF m.ret # RetOk /\ ~(a.p.options.noEval /\ m.ret \in {RetContinue, RetReturn})
       THEN Return(Pop(m), m.ret)
       ELSE addWord(m, a, m.tcl.result)

\* eval from the return of the nested eval of a [command] substitution.
evalAfterSubst(m) ==
    LET a == Top(m)
    IN IF m.ret # RetOk /\ a.p.options.noEval /\ m.ret = RetBreak
       THEN ReturnResult(Pop(m), RetOk, Join(a.args, <<" ">>))
       ELSE IF m.ret # RetOk /\ ~(a.p.options.noEval /\ m.ret \in {RetContinue, RetReturn})
       THEN Return(Pop(m), m.ret)
       ELSE addWord(m, a, m.tcl.result)

\* eval that goes on to the next command whatever doCommand returned.
evalAfterCommandOn(m) ==
    [m EXCEPT !.pc = "run",
              !.stack[Len(m.stack)] =
                  [Top(m) EXCEPT !.args = <<>>, !.wait = "none", !.subs = <<>>,
                                 !.cmdStart = Top(m).p.pos]]

\* eval from the return of doCommand.
evalAfterCommand(m) ==
    IF m.ret # RetOk THEN Return(Pop(m), m.ret)
    ELSE [m EXCEPT !.pc = "run",
                   !.stack[Len(m.stack)] =
                       [Top(m) EXCEPT !.args = <<>>, !.wait = "none", !.subs = <<>>,
                                      !.cmdStart = Top(m).p.pos]]

\* ------------------------------------------------------------ the host

\* The scripts the host passes to EvalString on a new interpreter.
Scripts ==
    {
      \* set x 1; proc f {a} {set x 2; set y $a}; f 9; set x
      <<"s", "e", "t", " ", "x", " ", "1", ";", " ", "p", "r", "o", "c", " ", "f", " ", "{", "a", "}", " ", "{", "s", "e", "t", " ", "x", " ", "2", ";", " ", "s", "e", "t", " ", "y", " ", "$", "a", "}", ";", " ", "f", " ", "9", ";", " ", "s", "e", "t", " ", "x">>,
      \* set x 1; proc f {} {set x 2; error e}; catch {f} r; set x
      <<"s", "e", "t", " ", "x", " ", "1", ";", " ", "p", "r", "o", "c", " ", "f", " ", "{", "}", " ", "{", "s", "e", "t", " ", "x", " ", "2", ";", " ", "e", "r", "r", "o", "r", " ", "e", "}", ";", " ", "c", "a", "t", "c", "h", " ", "{", "f", "}", " ", "r", ";", " ", "s", "e", "t", " ", "x">>,
      \* set x 1; proc f {} {upvar 1 x y; set y 5; set x 7; unset x}; f
      <<"s", "e", "t", " ", "x", " ", "1", ";", " ", "p", "r", "o", "c", " ", "f", " ", "{", "}", " ", "{", "u", "p", "v", "a", "r", " ", "1", " ", "x", " ", "y", ";", " ", "s", "e", "t", " ", "y", " ", "5", ";", " ", "s", "e", "t", " ", "x", " ", "7", ";", " ", "u", "n", "s", "e", "t", " ", "x", "}", ";", " ", "f">>,
      \* set x 1; proc f {} {upvar 1 x y; set y 5; uplevel 1 {set x 6}; set y}; f
      <<"s", "e", "t", " ", "x", " ", "1", ";", " ", "p", "r", "o", "c", " ", "f", " ", "{", "}", " ", "{", "u", "p", "v", "a", "r", " ", "1", " ", "x", " ", "y", ";", " ", "s", "e", "t", " ", "y", " ", "5", ";", " ", "u", "p", "l", "e", "v", "e", "l", " ", "1", " ", "{", "s", "e", "t", " ", "x", " ", "6", "}", ";", " ", "s", "e", "t", " ", "y", "}", ";", " ", "f">>,
      \* set x 1; proc g {} {upvar #0 x z; set z 8}; proc f {} {g}; f
      <<"s", "e", "t", " ", "x", " ", "1", ";", " ", "p", "r", "o", "c", " ", "g", " ", "{", "}", " ", "{", "u", "p", "v", "a", "r", " ", "#", "0", " ", "x", " ", "z", ";", " ", "s", "e", "t", " ", "z", " ", "8", "}", ";", " ", "p", "r", "o", "c", " ", "f", " ", "{", "}", " ", "{", "g", "}", ";", " ", "f">>,
      \* set a 1; proc f {} {global a; set a 2; incr a}; f
      <<"s", "e", "t", " ", "a", " ", "1", ";", " ", "p", "r", "o", "c", " ", "f", " ", "{", "}", " ", "{", "g", "l", "o", "b", "a", "l", " ", "a", ";", " ", "s", "e", "t", " ", "a", " ", "2", ";", " ", "i", "n", "c", "r", " ", "a", "}", ";", " ", "f">>,
      \* proc f {} {upvar 1 q y; set y 5}; f; set q
      <<"p", "r", "o", "c", " ", "f", " ", "{", "}", " ", "{", "u", "p", "v", "a", "r", " ", "1", " ", "q", " ", "y", ";", " ", "s", "e", "t", " ", "y", " ", "5", "}", ";", " ", "f", ";", " ", "s", "e", "t", " ", "q">>,
      \* catch {set a 1} r
      <<"c", "a", "t", "c", "h", " ", "{", "s", "e", "t", " ", "a", " ", "1", "}", " ", "r">>,
      \* catch {error e} r
      <<"c", "a", "t", "c", "h", " ", "{", "e", "r", "r", "o", "r", " ", "e", "}", " ", "r">>,
      \* catch {return v} r
      <<"c", "a", "t", "c", "h", " ", "{", "r", "e", "t", "u", "r", "n", " ", "v", "}", " ", "r">>,
      \* catch {break} r; catch {continue}
      <<"c", "a", "t", "c", "h", " ", "{", "b", "r", "e", "a", "k", "}", " ", "r", ";", " ", "c", "a", "t", "c", "h", " ", "{", "c", "o", "n", "t", "i", "n", "u", "e", "}">>,
      \* catch {exit 3} r
      <<"c", "a", "t", "c", "h", " ", "{", "e", "x", "i", "t", " ", "3", "}", " ", "r">>,
      \* catch {nosuch} r; catch
      <<"c", "a", "t", "c", "h", " ", "{", "n", "o", "s", "u", "c", "h", "}", " ", "r", ";", " ", "c", "a", "t", "c", "h">>,
      \* proc a {} {b}; proc b {} {uplevel 1 {set z 1}; uplevel 0 {set w 1}}; a
      <<"p", "r", "o", "c", " ", "a", " ", "{", "}", " ", "{", "b", "}", ";", " ", "p", "r", "o", "c", " ", "b", " ", "{", "}", " ", "{", "u", "p", "l", "e", "v", "e", "l", " ", "1", " ", "{", "s", "e", "t", " ", "z", " ", "1", "}", ";", " ", "u", "p", "l", "e", "v", "e", "l", " ", "0", " ", "{", "s", "e", "t", " ", "w", " ", "1", "}", "}", ";", " ", "a">>,
      \* set x 1; proc a {} {set x 2; b}; proc b {} {uplevel 1 {upvar #0 x y; set y 3}}; a
      <<"s", "e", "t", " ", "x", " ", "1", ";", " ", "p", "r", "o", "c", " ", "a", " ", "{", "}", " ", "{", "s", "e", "t", " ", "x", " ", "2", ";", " ", "b", "}", ";", " ", "p", "r", "o", "c", " ", "b", " ", "{", "}", " ", "{", "u", "p", "l", "e", "v", "e", "l", " ", "1", " ", "{", "u", "p", "v", "a", "r", " ", "#", "0", " ", "x", " ", "y", ";", " ", "s", "e", "t", " ", "y", " ", "3", "}", "}", ";", " ", "a">>,
      \* proc f {} {uplevel 1 {error boom}}; catch {f} r
      <<"p", "r", "o", "c", " ", "f", " ", "{", "}", " ", "{", "u", "p", "l", "e", "v", "e", "l", " ", "1", " ", "{", "e", "r", "r", "o", "r", " ", "b", "o", "o", "m", "}", "}", ";", " ", "c", "a", "t", "c", "h", " ", "{", "f", "}", " ", "r">>,
      \* proc f {} {uplevel #0 {set g 1}}; f
      <<"p", "r", "o", "c", " ", "f", " ", "{", "}", " ", "{", "u", "p", "l", "e", "v", "e", "l", " ", "#", "0", " ", "{", "s", "e", "t", " ", "g", " ", "1", "}", "}", ";", " ", "f">>,
      \* proc f {} {return 5}; f
      <<"p", "r", "o", "c", " ", "f", " ", "{", "}", " ", "{", "r", "e", "t", "u", "r", "n", " ", "5", "}", ";", " ", "f">>,
      \* proc f {} {break}; while {1} {f}
      <<"p", "r", "o", "c", " ", "f", " ", "{", "}", " ", "{", "b", "r", "e", "a", "k", "}", ";", " ", "w", "h", "i", "l", "e", " ", "{", "1", "}", " ", "{", "f", "}">>,
      \* proc f {} {continue}; set c 1; while {$c} {set c 0; f; set c 1}
      <<"p", "r", "o", "c", " ", "f", " ", "{", "}", " ", "{", "c", "o", "n", "t", "i", "n", "u", "e", "}", ";", " ", "s", "e", "t", " ", "c", " ", "1", ";", " ", "w", "h", "i", "l", "e", " ", "{", "$", "c", "}", " ", "{", "s", "e", "t", " ", "c", " ", "0", ";", " ", "f", ";", " ", "s", "e", "t", " ", "c", " ", "1", "}">>,
      \* proc f {} {break}; f
      <<"p", "r", "o", "c", " ", "f", " ", "{", "}", " ", "{", "b", "r", "e", "a", "k", "}", ";", " ", "f">>,
      \* proc f {} {exit 2}; f; set a 1
      <<"p", "r", "o", "c", " ", "f", " ", "{", "}", " ", "{", "e", "x", "i", "t", " ", "2", "}", ";", " ", "f", ";", " ", "s", "e", "t", " ", "a", " ", "1">>,
      \* proc f {} {error e}; f
      <<"p", "r", "o", "c", " ", "f", " ", "{", "}", " ", "{", "e", "r", "r", "o", "r", " ", "e", "}", ";", " ", "f">>,
      \* set c 1; while {$c} {set c 0; continue; set c 1}
      <<"s", "e", "t", " ", "c", " ", "1", ";", " ", "w", "h", "i", "l", "e", " ", "{", "$", "c", "}", " ", "{", "s", "e", "t", " ", "c", " ", "0", ";", " ", "c", "o", "n", "t", "i", "n", "u", "e", ";", " ", "s", "e", "t", " ", "c", " ", "1", "}">>,
      \* while {1} {break}
      <<"w", "h", "i", "l", "e", " ", "{", "1", "}", " ", "{", "b", "r", "e", "a", "k", "}">>,
      \* while {1} {return 7}
      <<"w", "h", "i", "l", "e", " ", "{", "1", "}", " ", "{", "r", "e", "t", "u", "r", "n", " ", "7", "}">>,
      \* while {1} {error e}
      <<"w", "h", "i", "l", "e", " ", "{", "1", "}", " ", "{", "e", "r", "r", "o", "r", " ", "e", "}">>,
      \* while {1} {exit 4}
      <<"w", "h", "i", "l", "e", " ", "{", "1", "}", " ", "{", "e", "x", "i", "t", " ", "4", "}">>,
      \* for {set i 1} {$i} {set i 0} {continue}
      <<"f", "o", "r", " ", "{", "s", "e", "t", " ", "i", " ", "1", "}", " ", "{", "$", "i", "}", " ", "{", "s", "e", "t", " ", "i", " ", "0", "}", " ", "{", "c", "o", "n", "t", "i", "n", "u", "e", "}">>,
      \* for {set i 0} {$i < 2} {incr i} {append log $i}
      <<"f", "o", "r", " ", "{", "s", "e", "t", " ", "i", " ", "0", "}", " ", "{", "$", "i", " ", "<", " ", "2", "}", " ", "{", "i", "n", "c", "r", " ", "i", "}", " ", "{", "a", "p", "p", "e", "n", "d", " ", "l", "o", "g", " ", "$", "i", "}">>,
      \* for {set i 0} {1} {incr i} {break}
      <<"f", "o", "r", " ", "{", "s", "e", "t", " ", "i", " ", "0", "}", " ", "{", "1", "}", " ", "{", "i", "n", "c", "r", " ", "i", "}", " ", "{", "b", "r", "e", "a", "k", "}">>,
      \* for {} {1} {} {return 7}
      <<"f", "o", "r", " ", "{", "}", " ", "{", "1", "}", " ", "{", "}", " ", "{", "r", "e", "t", "u", "r", "n", " ", "7", "}">>,
      \* for {} {1} {} {error e}
      <<"f", "o", "r", " ", "{", "}", " ", "{", "1", "}", " ", "{", "}", " ", "{", "e", "r", "r", "o", "r", " ", "e", "}">>,
      \* proc f {} {while {1} {return V}}; f
      <<"p", "r", "o", "c", " ", "f", " ", "{", "}", " ", "{", "w", "h", "i", "l", "e", " ", "{", "1", "}", " ", "{", "r", "e", "t", "u", "r", "n", " ", "V", "}", "}", ";", " ", "f">>,
      \* proc f {} {for {} {1} {} {return V}}; f
      <<"p", "r", "o", "c", " ", "f", " ", "{", "}", " ", "{", "f", "o", "r", " ", "{", "}", " ", "{", "1", "}", " ", "{", "}", " ", "{", "r", "e", "t", "u", "r", "n", " ", "V", "}", "}", ";", " ", "f">>,
      \* proc f {} {foreach x {1 2} {return V}}; f
      <<"p", "r", "o", "c", " ", "f", " ", "{", "}", " ", "{", "f", "o", "r", "e", "a", "c", "h", " ", "x", " ", "{", "1", " ", "2", "}", " ", "{", "r", "e", "t", "u", "r", "n", " ", "V", "}", "}", ";", " ", "f">>,
      \* foreach x {1 2} {error MSG}
      <<"f", "o", "r", "e", "a", "c", "h", " ", "x", " ", "{", "1", " ", "2", "}", " ", "{", "e", "r", "r", "o", "r", " ", "M", "S", "G", "}">>,
      \* foreach x {1 2} {append log $x; continue}
      <<"f", "o", "r", "e", "a", "c", "h", " ", "x", " ", "{", "1", " ", "2", "}", " ", "{", "a", "p", "p", "e", "n", "d", " ", "l", "o", "g", " ", "$", "x", ";", " ", "c", "o", "n", "t", "i", "n", "u", "e", "}">>,
      \* foreach x {1 2} {break}
      <<"f", "o", "r", "e", "a", "c", "h", " ", "x", " ", "{", "1", " ", "2", "}", " ", "{", "b", "r", "e", "a", "k", "}">>,
      \* subst {a [break] b}
      <<"s", "u", "b", "s", "t", " ", "{", "a", " ", "[", "b", "r", "e", "a", "k", "]", " ", "b", "}">>,
      \* subst {a[continue]b}
      <<"s", "u", "b", "s", "t", " ", "{", "a", "[", "c", "o", "n", "t", "i", "n", "u", "e", "]", "b", "}">>,
      \* subst {a [return r] b}
      <<"s", "u", "b", "s", "t", " ", "{", "a", " ", "[", "r", "e", "t", "u", "r", "n", " ", "r", "]", " ", "b", "}">>,
      \* subst {a [error e] b}
      <<"s", "u", "b", "s", "t", " ", "{", "a", " ", "[", "e", "r", "r", "o", "r", " ", "e", "]", " ", "b", "}">>,
      \* subst {a [exit 2] b}
      <<"s", "u", "b", "s", "t", " ", "{", "a", " ", "[", "e", "x", "i", "t", " ", "2", "]", " ", "b", "}">>,
      \* expr {1 + [return 2]}
      <<"e", "x", "p", "r", " ", "{", "1", " ", "+", " ", "[", "r", "e", "t", "u", "r", "n", " ", "2", "]", "}">>,
      \* subst {x $nope}
      <<"s", "u", "b", "s", "t", " ", "{", "x", " ", "$", "n", "o", "p", "e", "}">>,
      \* set a 1; error e; set b 2
      <<"s", "e", "t", " ", "a", " ", "1", ";", " ", "e", "r", "r", "o", "r", " ", "e", ";", " ", "s", "e", "t", " ", "b", " ", "2">>,
      \* set a [error x]; set b 1
      <<"s", "e", "t", " ", "a", " ", "[", "e", "r", "r", "o", "r", " ", "x", "]", ";", " ", "s", "e", "t", " ", "b", " ", "1">>,
      \* set a $nope; set b 1
      <<"s", "e", "t", " ", "a", " ", "$", "n", "o", "p", "e", ";", " ", "s", "e", "t", " ", "b", " ", "1">>,
      \* set a 1; set b {
      <<"s", "e", "t", " ", "a", " ", "1", ";", " ", "s", "e", "t", " ", "b", " ", "{">>,
      \* set a 1; nosuch; set b 2
      <<"s", "e", "t", " ", "a", " ", "1", ";", " ", "n", "o", "s", "u", "c", "h", ";", " ", "s", "e", "t", " ", "b", " ", "2">>,
      \* set a [set b 2][set c 3]$b; eval set d $a
      <<"s", "e", "t", " ", "a", " ", "[", "s", "e", "t", " ", "b", " ", "2", "]", "[", "s", "e", "t", " ", "c", " ", "3", "]", "$", "b", ";", " ", "e", "v", "a", "l", " ", "s", "e", "t", " ", "d", " ", "$", "a">>,
      \* set x 1; proc a {} {set x 6; b}; proc b {} {upvar 2 x z; set z 4}; a; set x
      <<"s", "e", "t", " ", "x", " ", "1", ";", " ", "p", "r", "o", "c", " ", "a", " ", "{", "}", " ", "{", "s", "e", "t", " ", "x", " ", "6", ";", " ", "b", "}", ";", " ", "p", "r", "o", "c", " ", "b", " ", "{", "}", " ", "{", "u", "p", "v", "a", "r", " ", "2", " ", "x", " ", "z", ";", " ", "s", "e", "t", " ", "z", " ", "4", "}", ";", " ", "a", ";", " ", "s", "e", "t", " ", "x">>,
      \* subst {a b [break] c}
      <<"s", "u", "b", "s", "t", " ", "{", "a", " ", "b", " ", "[", "b", "r", "e", "a", "k", "]", " ", "c", "}">>,
      \* proc f {} {return 1}; rename f g; g; f
      <<"p", "r", "o", "c", " ", "f", " ", "{", "}", " ", "{", "r", "e", "t", "u", "r", "n", " ", "1", "}", ";", " ", "r", "e", "n", "a", "m", "e", " ", "f", " ", "g", ";", " ", "g", ";", " ", "f">>,
      \* proc f {} {return 1}; rename f {}; {}; f
      <<"p", "r", "o", "c", " ", "f", " ", "{", "}", " ", "{", "r", "e", "t", "u", "r", "n", " ", "1", "}", ";", " ", "r", "e", "n", "a", "m", "e", " ", "f", " ", "{", "}", ";", " ", "{", "}", ";", " ", "f">>,
      \* catch {rename nosuch g}; catch {rename}; rename set set; set a 1; rename set
      <<"c", "a", "t", "c", "h", " ", "{", "r", "e", "n", "a", "m", "e", " ", "n", "o", "s", "u", "c", "h", " ", "g", "}", ";", " ", "c", "a", "t", "c", "h", " ", "{", "r", "e", "n", "a", "m", "e", "}", ";", " ", "r", "e", "n", "a", "m", "e", " ", "s", "e", "t", " ", "s", "e", "t", ";", " ", "s", "e", "t", " ", "a", " ", "1", ";", " ", "r", "e", "n", "a", "m", "e", " ", "s", "e", "t">>,
      \* proc f {a} {variable v 1 w; upvar 0 a b; info locals}; f 2
      <<"p", "r", "o", "c", " ", "f", " ", "{", "a", "}", " ", "{", "v", "a", "r", "i", "a", "b", "l", "e", " ", "v", " ", "1", " ", "w", ";", " ", "u", "p", "v", "a", "r", " ", "0", " ", "a", " ", "b", ";", " ", "i", "n", "f", "o", " ", "l", "o", "c", "a", "l", "s", "}", ";", " ", "f", " ", "2">>,
      \* set x 1; proc f {} {upvar 1 x y; set y 5; unset y; catch {set y} r; set r}; f; set x
      <<"s", "e", "t", " ", "x", " ", "1", ";", " ", "p", "r", "o", "c", " ", "f", " ", "{", "}", " ", "{", "u", "p", "v", "a", "r", " ", "1", " ", "x", " ", "y", ";", " ", "s", "e", "t", " ", "y", " ", "5", ";", " ", "u", "n", "s", "e", "t", " ", "y", ";", " ", "c", "a", "t", "c", "h", " ", "{", "s", "e", "t", " ", "y", "}", " ", "r", ";", " ", "s", "e", "t", " ", "r", "}", ";", " ", "f", ";", " ", "s", "e", "t", " ", "x">>,
      \* set a 1; proc f {} {global a; unset a; set a}; catch {f} r; set a
      <<"s", "e", "t", " ", "a", " ", "1", ";", " ", "p", "r", "o", "c", " ", "f", " ", "{", "}", " ", "{", "g", "l", "o", "b", "a", "l", " ", "a", ";", " ", "u", "n", "s", "e", "t", " ", "a", ";", " ", "s", "e", "t", " ", "a", "}", ";", " ", "c", "a", "t", "c", "h", " ", "{", "f", "}", " ", "r", ";", " ", "s", "e", "t", " ", "a">>,
      \* proc f {a} {upvar 0 a b; set b 3; unset b; set a}; f 2
      <<"p", "r", "o", "c", " ", "f", " ", "{", "a", "}", " ", "{", "u", "p", "v", "a", "r", " ", "0", " ", "a", " ", "b", ";", " ", "s", "e", "t", " ", "b", " ", "3", ";", " ", "u", "n", "s", "e", "t", " ", "b", ";", " ", "s", "e", "t", " ", "a", "}", ";", " ", "f", " ", "2">>,
      \* set g 1; proc f {a b} {set c 3; info locals}; f 1 2
      <<"s", "e", "t", " ", "g", " ", "1", ";", " ", "p", "r", "o", "c", " ", "f", " ", "{", "a", " ", "b", "}", " ", "{", "s", "e", "t", " ", "c", " ", "3", ";", " ", "i", "n", "f", "o", " ", "l", "o", "c", "a", "l", "s", "}", ";", " ", "f", " ", "1", " ", "2">>,
      \* set a 1; proc f {a} {global a; info locals}; f 2
      <<"s", "e", "t", " ", "a", " ", "1", ";", " ", "p", "r", "o", "c", " ", "f", " ", "{", "a", "}", " ", "{", "g", "l", "o", "b", "a", "l", " ", "a", ";", " ", "i", "n", "f", "o", " ", "l", "o", "c", "a", "l", "s", "}", ";", " ", "f", " ", "2">>,
      \* proc f {a} {info vars a*; info exists a; info level; info args f; info body f}; f 1
      <<"p", "r", "o", "c", " ", "f", " ", "{", "a", "}", " ", "{", "i", "n", "f", "o", " ", "v", "a", "r", "s", " ", "a", "*", ";", " ", "i", "n", "f", "o", " ", "e", "x", "i", "s", "t", "s", " ", "a", ";", " ", "i", "n", "f", "o", " ", "l", "e", "v", "e", "l", ";", " ", "i", "n", "f", "o", " ", "a", "r", "g", "s", " ", "f", ";", " ", "i", "n", "f", "o", " ", "b", "o", "d", "y", " ", "f", "}", ";", " ", "f", " ", "1">>,
      \* proc f {a} {info procs; info globals; info commands s*; info nosuch; info}; f 1
      <<"p", "r", "o", "c", " ", "f", " ", "{", "a", "}", " ", "{", "i", "n", "f", "o", " ", "p", "r", "o", "c", "s", ";", " ", "i", "n", "f", "o", " ", "g", "l", "o", "b", "a", "l", "s", ";", " ", "i", "n", "f", "o", " ", "c", "o", "m", "m", "a", "n", "d", "s", " ", "s", "*", ";", " ", "i", "n", "f", "o", " ", "n", "o", "s", "u", "c", "h", ";", " ", "i", "n", "f", "o", "}", ";", " ", "f", " ", "1">>,
      \* info body set; info level 1 x; info level 0 0
      <<"i", "n", "f", "o", " ", "b", "o", "d", "y", " ", "s", "e", "t", ";", " ", "i", "n", "f", "o", " ", "l", "e", "v", "e", "l", " ", "1", " ", "x", ";", " ", "i", "n", "f", "o", " ", "l", "e", "v", "e", "l", " ", "0", " ", "0">>,
      \* proc f {a args} {set args}; f 1 2 3
      <<"p", "r", "o", "c", " ", "f", " ", "{", "a", " ", "a", "r", "g", "s", "}", " ", "{", "s", "e", "t", " ", "a", "r", "g", "s", "}", ";", " ", "f", " ", "1", " ", "2", " ", "3">>,
      \* proc f {a args} {set a}; f 1
      <<"p", "r", "o", "c", " ", "f", " ", "{", "a", " ", "a", "r", "g", "s", "}", " ", "{", "s", "e", "t", " ", "a", "}", ";", " ", "f", " ", "1">>,
      \* set x 1; proc f {} {upvar 3 x z; set z 4}; f; set x
      <<"s", "e", "t", " ", "x", " ", "1", ";", " ", "p", "r", "o", "c", " ", "f", " ", "{", "}", " ", "{", "u", "p", "v", "a", "r", " ", "3", " ", "x", " ", "z", ";", " ", "s", "e", "t", " ", "z", " ", "4", "}", ";", " ", "f", ";", " ", "s", "e", "t", " ", "x">>,
      \* proc f {} {uplevel 5 {set w 1}}; f
      <<"p", "r", "o", "c", " ", "f", " ", "{", "}", " ", "{", "u", "p", "l", "e", "v", "e", "l", " ", "5", " ", "{", "s", "e", "t", " ", "w", " ", "1", "}", "}", ";", " ", "f">>,
      \* proc f {} {upvar #3 x z}; f
      <<"p", "r", "o", "c", " ", "f", " ", "{", "}", " ", "{", "u", "p", "v", "a", "r", " ", "#", "3", " ", "x", " ", "z", "}", ";", " ", "f">>,
      \* proc f {} {uplevel #2 {set w 1}}; f
      <<"p", "r", "o", "c", " ", "f", " ", "{", "}", " ", "{", "u", "p", "l", "e", "v", "e", "l", " ", "#", "2", " ", "{", "s", "e", "t", " ", "w", " ", "1", "}", "}", ";", " ", "f">>,
      \* proc f {} {global q; set q 1}; f
      <<"p", "r", "o", "c", " ", "f", " ", "{", "}", " ", "{", "g", "l", "o", "b", "a", "l", " ", "q", ";", " ", "s", "e", "t", " ", "q", " ", "1", "}", ";", " ", "f">>
    }

\* The scripts of the later EvalString calls on the same interpreter.
FollowUps ==
    {
      \* set x
      <<"s", "e", "t", " ", "x">>,
      \* f 1
      <<"f", " ", "1">>
    }

\* ------------------------------------------------------- state machine

\* tcl: the interpreter; stack, pc, ret: the Go call stack, its position and
\* the status in return; evals: the EvalString calls made; err: what the
\* last EvalString returned; obs: the step last taken, with the status, the
\* last-result, the frame, the top activation and the stack depth it started
\* from.
VARIABLES tcl, stack, pc, ret, evals, err, obs

vars == <<tcl, stack, pc, ret, evals, err, obs>>

\* NewTCL
Init ==
    /\ tcl = [env |-> 1, level |-> 0, cmds |-> tclInitCommands, result |-> <<>>,
              frames |-> << [vars |-> EmptyMap, local |-> EmptyMap, parent |-> 0,
                             level |-> 0, args |-> <<>>] >>,
              cells |-> <<>>, aliases |-> {}]
    /\ stack = <<>>
    /\ pc = "idle"
    /\ ret = RetOk
    /\ evals = 0
    /\ err = "nil"
    /\ obs = [ev |-> "NewTCL", r |-> RetOk, res |-> <<>>, act |-> [k |-> "none"],
              args |-> <<>>, env |-> 1, level |-> 0, depth |-> 0]

Machine == [tcl |-> tcl, stack |-> stack, pc |-> pc, ret |-> ret]

Becomes(m) == tcl' = m.tcl /\ stack' = m.stack /\ pc' = m.pc /\ ret' = m.ret

Observe(ev, args) ==
    obs' = [ev |-> ev, r |-> ret, res |-> tcl.result,
            act |-> IF stack = <<>> THEN [k |-> "none"] ELSE stack[Len(stack)],
            args |-> args, env |-> tcl.env, level |-> tcl.level, depth |-> Len(stack)]

\* EvalString up to its eval.
EvalString(str) ==
    /\ pc = "idle"
    /\ evals < MaxEvals
    /\ Becomes(eval([Machine EXCEPT !.stack = << [k |-> "EvalString", str |-> str] >>], str, DefaultOptions))
    /\ evals' = evals + 1
    /\ Observe("EvalString", <<str>>)
    /\ UNCHANGED err

\* EvalString from the return of its eval.
EvalStringReturn ==
    /\ pc = "ret"
    /\ Top(Machine).k = "EvalString"
    /\ pc' = "idle"
    /\ stack' = <<>>
    /\ err' = IF ret = RetOk THEN "nil" ELSE IF ret = RetExit THEN "exit" ELSE "error"
    /\ Observe("EvalStringReturn", <<>>)
    /\ UNCHANGED <<tcl, ret, evals>>

Running == pc = "run" /\ Top(Machine).k = "eval" /\ Len(stack) < MaxStack

\* The parser of the eval on top after its next getToken.
Scanned == getToken(Top(Machine).p)

AtEol == ~Scanned.panic /\ Scanned.ok /\ Scanned.token = tokEOL

\* The Go function doCommand finds for the words collected, if any.
Handler ==
    IF Top(Machine).args = <<>> \/ Top(Machine).args[1] \notin DOMAIN tcl.cmds THEN "none"
    ELSE tcl.cmds[Top(Machine).args[1]].fn

\* A turn of the loop of eval on a token other than the end of a line.
EvalToken ==
    /\ Running
    /\ ~AtEol
    /\ Becomes(evalToken(Machine, Scanned))
    /\ Observe("evalToken", <<>>)
    /\ UNCHANGED <<evals, err>>

\* The end of a line under noEval: the words are joined.
EvalJoin ==
    /\ Running
    /\ AtEol
    /\ Top(Machine).p.options.noEval
    /\ Becomes(evalJoin(Machine, Scanned))
    /\ Observe("evalJoin", <<>>)
    /\ UNCHANGED <<evals, err>>

\* The end of a line: doCommand calls the function fn the entry name holds,
\* up to the return of fn or to the eval fn calls.
Command(name, fn(_, _)) ==
    /\ Running
    /\ AtEol
    /\ ~Top(Machine).p.options.noEval
    /\ Handler = name
    /\ Becomes(evalCommand(Machine, Scanned, fn))
    /\ Observe(name, Top(Machine).args)
    /\ UNCHANGED <<evals, err>>

\* doCommand without a function to call: no words, no such command.
DoCommand == Command("none", callNil)

\* doCommand on a name whose entry is nil: cmd.fn is a nil dereference.
NilCommand == Command("nil", callNil)

UserProc == Command("userProc", callUserProc)

CmdAppend == Command("cmdAppend", cmdAppend)

CmdBreak == Command("cmdBreak", cmdBreak)

CmdCatch == Command("cmdCatch", cmdCatch)

CmdContinue == Command("cmdContinue", cmdContinue)

CmdError == Command("cmdError", cmdError)

CmdEval == Command("cmdEval", cmdEval)

CmdExit == Command("cmdExit", cmdExit)

CmdMath == Command("cmdMath", cmdMath)

CmdFor == Command("cmdFor", cmdFor)

CmdForEach == Command("cmdForEach", cmdForEach)

CmdGlobal == Command("cmdGlobal", cmdGlobal)

CmdIncr == Command("cmdIncr", cmdIncr)

CmdProc == Command("cmdProc", cmdProc)

CmdReturn == Command("cmdReturn", cmdReturn)

CmdSet == Command("cmdSet", cmdSet)

CmdSubst == Command("cmdSubst", cmdSubst)

CmdUpLevel == Command("cmdUpLevel", cmdUpLevel)

CmdUpVar == Command("cmdUpVar", cmdUpVar)

CmdUnSet == Command("cmdUnSet", cmdUnSet)

CmdWhile == Command("cmdWhile", cmdWhile)

CmdIf == Command("cmdIf", cmdIf)

CmdSwitch == Command("cmdSwitch", cmdSwitch)

CmdRename == Command("cmdRename", cmdRename)

CmdVariable == Command("cmdVariable", cmdVariable)

\* doCommand up to the call of the function, then cmdInfo with each order
\* the range over the map can take.
enterHandler(m, args) == m

CmdInfo ==
    \E k \in 0..(MapOrders - 1) :
        /\ Running
        /\ AtEol
        /\ ~Top(Machine).p.options.noEval
        /\ Handler = "cmdInfo"
        /\ Becomes(cmdInfo(evalCommand(Machine, Scanned, enterHandler), Top(Machine).args, k))
        /\ Observe("cmdInfo", Top(Machine).args)
        /\ UNCHANGED <<evals, err>>

\* The return of a call to the activation that made it.
Resume(k, wait, resume(_)) ==
    /\ pc = "ret"
    /\ Top(Machine).k = k
    /\ k = "eval" => Top(Machine).wait = wait
    /\ Becomes(resume(Machine))
    /\ Observe(IF k # "eval" THEN k \o "Resume"
               ELSE IF wait = "tokCmd" THEN "evalAfterSubst" ELSE "evalAfterCommand", <<>>)
    /\ UNCHANGED <<evals, err>>

EvalAfterSubst == Resume("eval", "tokCmd", evalAfterSubst)

EvalAfterCommand == Resume("eval", "cmd", evalAfterCommand)

CatchResume == Resume("cmdCatch", "", cmdCatchResume)

UserProcResume == Resume("userProc", "", userProcResume)

UpLevelResume == Resume("cmdUpLevel", "", cmdUpLevelResume)

WhileResume == Resume("cmdWhile", "", cmdWhileResume)

ForResume == Resume("cmdFor", "", cmdForResume)

ForEachResume == Resume("cmdForEach", "", cmdForEachResume)

MathResume == Resume("cmdMath", "", cmdMathResume)

IfResume == Resume("cmdIf", "", cmdIfResume)

SwitchResume == Resume("cmdSwitch", "", cmdSwitchResume)

Next ==
    \/ \E str \in Scripts : evals = 0 /\ EvalString(str)
    \/ \E str \in FollowUps : evals > 0 /\ EvalString(str)
    \/ EvalStringReturn
    \/ EvalToken
    \/ EvalJoin
    \/ DoCommand
    \/ UserProc
    \/ CmdAppend
    \/ CmdBreak
    \/ CmdCatch
    \/ CmdContinue
    \/ CmdError
    \/ CmdEval
    \/ CmdExit
    \/ CmdMath
    \/ CmdFor
    \/ CmdForEach
    \/ CmdGlobal
    \/ CmdIncr
    \/ CmdProc
    \/ CmdReturn
    \/ CmdSet
    \/ CmdSubst
    \/ CmdUpLevel
    \/ CmdUpVar
    \/ CmdUnSet
    \/ CmdWhile
    \/ NilCommand
    \/ CmdRename
    \/ CmdVariable
    \/ CmdInfo
    \/ EvalAfterSubst
    \/ EvalAfterCommand
    \/ CatchResume
    \/ UserProcResume
    \/ UpLevelResume
    \/ WhileResume
    \/ ForResume
    \/ ForEachResume
    \/ MathResume

Spec == Init /\ [][Next]_vars

\* ------------------------------------------------ calls of the helpers

\* The helpers and the list commands applied to arguments of their own,
\* one specification for each: the arguments are drawn at the start and a
\* step applies a function and records what it returned.

MaxWord == 3

MaxItem == 2

MaxItems == 2

MaxInt == 40

MaxPattern == 3

MaxTarget == 3

MaxDepth == 3

Strings(chars, n) == UNION {[1..k -> chars] : k \in 0..n}

WordChars == {"a", " ", "{", "}", "\\", "$", "["}

ItemChars == {"a", " ", "{", "}", "\\"}

PatternChars == {"a", "b", "*", "?", "[", "]", "\\"}

TargetChars == {"a", "b"}

Bases == {8, 10, 16}

\* The interpreter is the one NewTCL returns; in holds the arguments of the
\* run, for the function in.fn.
Started(in) ==
    /\ tcl = [env |-> 1, level |-> 0, cmds |-> tclInitCommands, result |-> <<>>,
              frames |-> << [vars |-> EmptyMap, local |-> EmptyMap, parent |-> 0,
                             level |-> 0, args |-> <<>>] >>,
              cells |-> <<>>, aliases |-> {}]
    /\ stack = <<>>
    /\ pc = "idle"
    /\ ret = RetOk
    /\ evals = 0
    /\ err = "nil"
    /\ obs = [ev |-> "NewTCL", r |-> RetOk, res |-> <<>>, act |-> [k |-> "none"],
              args |-> in, env |-> 1, level |-> 0, depth |-> 0]

InitEscape ==
    \E in \in [fn : {"StringEscape"}, v : Strings(WordChars, MaxWord)] : Started(in)

InitList ==
    \E in \in [fn : {"cmdList"}, words : Strings(Strings(ItemChars, MaxItem), MaxItems)] :
        Started(in)

InitNumber ==
    \E in \in [fn : {"ConvertNumberToString"}, n : (-MaxInt)..MaxInt, b : Bases] :
        Started(in)

InitMatch ==
    \E in \in [fn : {"Match"}, pat : Strings(PatternChars, MaxPattern),
                target : Strings(TargetChars, MaxTarget), depth : 0..MaxDepth] :
        Started(in)

\* The step applies fn and leaves the interpreter as it is.
Calls(from, fn) ==
    /\ obs.ev = from
    /\ obs.args.fn = fn
    /\ UNCHANGED <<tcl, stack, pc, ret, evals, err>>

\* What a handler returned in m.
Returned(m) == [panic |-> m.pc = "panic", r |-> m.ret, result |-> m.tcl.result]

\* ParseArgs(StringEscape(v))
CallStringEscape ==
    /\ Calls("NewTCL", "StringEscape")
    /\ obs' = [obs EXCEPT !.ev = "StringEscape",
                          !.res = ParseArgs(StringEscape(obs.args.v))]

\* list w0 .. w(n-1)
CallList ==
    /\ Calls("NewTCL", "cmdList")
    /\ obs' = [obs EXCEPT !.ev = "cmdList",
                          !.res = Returned(cmdList(Machine, <<<<"l", "i", "s", "t">>>> \o obs.args.words))]

\* llength L of the list L that cmdList returned
CallLLength ==
    /\ Calls("cmdList", "cmdList")
    /\ ~obs.res.panic
    /\ obs' = [obs EXCEPT !.ev = "cmdLLength",
                          !.act = [k |-> "none", L |-> obs.res.result],
                          !.res = Returned(cmdLLength(Machine, <<<<"l", "l", "e", "n", "g", "t", "h">>, obs.res.result>>))]

\* lindex L i of the list L that cmdList returned
CallLIndex ==
    \E i \in 0..(MaxItems - 1) :
        /\ Calls("cmdList", "cmdList")
        /\ ~obs.res.panic
        /\ i < Len(obs.args.words)
        /\ obs' = [obs EXCEPT !.ev = "cmdLIndex",
                              !.act = [k |-> "none", L |-> obs.res.result, i |-> i],
                              !.res = Returned(cmdLIndex(Machine,
                                          <<<<"l", "i", "n", "d", "e", "x">>, obs.res.result,
                                            ConvertNumberToString(i, 10)>>))]

\* ConvertNumberToString(n, b), read back as the callers read a number.
CallConvertNumberToString ==
    /\ Calls("NewTCL", "ConvertNumberToString")
    /\ obs' = [obs EXCEPT !.ev = IF digitPanics(obs.args.n, obs.args.b)
                                 THEN "panic" ELSE "ConvertNumberToString",
                          !.res = IF digitPanics(obs.args.n, obs.args.b) THEN <<>>
                                  ELSE ConvertNumberToString(obs.args.n, obs.args.b)]

\* ConvertStringToNumber(str, 10, 0) of the string ConvertNumberToString
\* returned
CallConvertStringToNumber ==
    /\ Calls("ConvertNumberToString", "ConvertNumberToString")
    /\ obs' = [obs EXCEPT !.ev = "ConvertStringToNumber",
                          !.act = [k |-> "none", str |-> obs.res],
                          !.res = ConvertStringToNumber(obs.res, 10, 0)]

\* Match(pat, target, false, depth)
CallMatch ==
    /\ Calls("NewTCL", "Match")
    /\ obs' = [obs EXCEPT !.ev = "Match",
                          !.res = Match(obs.args.pat, obs.args.target, FALSE, obs.args.depth)]

NextEscape == CallStringEscape

SpecEscape == InitEscape /\ [][NextEscape]_vars

NextList ==
    \/ CallList
    \/ CallLLength
    \/ CallLIndex

SpecList == InitList /\ [][NextList]_vars

NextNumber ==
    \/ CallConvertNumberToString
    \/ CallConvertStringToNumber

SpecNumber == InitNumber /\ [][NextNumber]_vars

NextMatch == CallMatch

SpecMatch == InitMatch /\ [][NextMatch]_vars

\* -------------------------------------------------------- calls of expr

\* `expr` on a new interpreter, with one operator and operands of its own.

MaxOperand == 3

\* The operator words of `expr OP b`: the unary operators and two others.
UnaryWords == {<<"-">>, <<"n", "e", "g">>, <<"+">>, <<"n", "o", "t">>, <<"i", "n", "v">>, <<"a", "b", "s">>, <<"b", "o", "o", "l">>, <<"=">>, <<"f", "o", "o">>}

\* The operand words of `expr a op b`: integers and words that are none.
OperandWords == {<<"1">>, <<"2">>, <<"1", "0">>, <<"a">>, <<"b">>, <<"B">>}

ExprScripts ==
    {<<"e", "x", "p", "r", " ">> \o op \o <<" ">> \o ConvertNumberToString(b, 10) :
         op \in UnaryWords, b \in (-MaxOperand)..MaxOperand}
    \cup {<<"e", "x", "p", "r", " ">> \o a \o <<" ">> \o op \o <<" ">> \o b :
              a \in OperandWords, op \in relationOprs, b \in OperandWords}

NextExpr ==
    \/ \E str \in ExprScripts : evals = 0 /\ EvalString(str)
    \/ EvalStringReturn
    \/ EvalToken
    \/ EvalJoin
    \/ CmdMath
    \/ MathResume
    \/ EvalAfterCommand

SpecExpr == Init /\ [][NextExpr]_vars

\* ------------------------------------------- calls of if, switch, foreach

\* The scripts the host passes to EvalString for the commands that choose
\* between bodies.
FlowScripts ==
    {
      \* if {1} {set r a} elseif {[set t 1]} {set r b} else {set r c}
      <<"i", "f", " ", "{", "1", "}", " ", "{", "s", "e", "t", " ", "r", " ", "a", "}", " ", "e", "l", "s", "e", "i", "f", " ", "{", "[", "s", "e", "t", " ", "t", " ", "1", "]", "}", " ", "{", "s", "e", "t", " ", "r", " ", "b", "}", " ", "e", "l", "s", "e", " ", "{", "s", "e", "t", " ", "r", " ", "c", "}">>,
      \* if {0} {set r a} elseif {1} {set r b} else {set r c}
      <<"i", "f", " ", "{", "0", "}", " ", "{", "s", "e", "t", " ", "r", " ", "a", "}", " ", "e", "l", "s", "e", "i", "f", " ", "{", "1", "}", " ", "{", "s", "e", "t", " ", "r", " ", "b", "}", " ", "e", "l", "s", "e", " ", "{", "s", "e", "t", " ", "r", " ", "c", "}">>,
      \* if {0} {set r a} elseif {0} {set r b} else {set r c}
      <<"i", "f", " ", "{", "0", "}", " ", "{", "s", "e", "t", " ", "r", " ", "a", "}", " ", "e", "l", "s", "e", "i", "f", " ", "{", "0", "}", " ", "{", "s", "e", "t", " ", "r", " ", "b", "}", " ", "e", "l", "s", "e", " ", "{", "s", "e", "t", " ", "r", " ", "c", "}">>,
      \* if {0} {set r a} elseif {0} {set r b}
      <<"i", "f", " ", "{", "0", "}", " ", "{", "s", "e", "t", " ", "r", " ", "a", "}", " ", "e", "l", "s", "e", "i", "f", " ", "{", "0", "}", " ", "{", "s", "e", "t", " ", "r", " ", "b", "}">>,
      \* if {0} {set r a}
      <<"i", "f", " ", "{", "0", "}", " ", "{", "s", "e", "t", " ", "r", " ", "a", "}">>,
      \* if {2} {set r a}
      <<"i", "f", " ", "{", "2", "}", " ", "{", "s", "e", "t", " ", "r", " ", "a", "}">>,
      \* if {0} {set r a} else {set r c}
      <<"i", "f", " ", "{", "0", "}", " ", "{", "s", "e", "t", " ", "r", " ", "a", "}", " ", "e", "l", "s", "e", " ", "{", "s", "e", "t", " ", "r", " ", "c", "}">>,
      \* if {[error e]} {set r a} else {set r c}
      <<"i", "f", " ", "{", "[", "e", "r", "r", "o", "r", " ", "e", "]", "}", " ", "{", "s", "e", "t", " ", "r", " ", "a", "}", " ", "e", "l", "s", "e", " ", "{", "s", "e", "t", " ", "r", " ", "c", "}">>,
      \* if {1} {error boom} else {set r c}
      <<"i", "f", " ", "{", "1", "}", " ", "{", "e", "r", "r", "o", "r", " ", "b", "o", "o", "m", "}", " ", "e", "l", "s", "e", " ", "{", "s", "e", "t", " ", "r", " ", "c", "}">>,
      \* if {0} {set r a} elseif {[break]} {set r b} else {set r c}
      <<"i", "f", " ", "{", "0", "}", " ", "{", "s", "e", "t", " ", "r", " ", "a", "}", " ", "e", "l", "s", "e", "i", "f", " ", "{", "[", "b", "r", "e", "a", "k", "]", "}", " ", "{", "s", "e", "t", " ", "r", " ", "b", "}", " ", "e", "l", "s", "e", " ", "{", "s", "e", "t", " ", "r", " ", "c", "}">>,
      \* if {1} {return v}
      <<"i", "f", " ", "{", "1", "}", " ", "{", "r", "e", "t", "u", "r", "n", " ", "v", "}">>,
      \* if {1} {set r a} foo
      <<"i", "f", " ", "{", "1", "}", " ", "{", "s", "e", "t", " ", "r", " ", "a", "}", " ", "f", "o", "o">>,
      \* foreach {i j} {a b c} {append x $j $i}
      <<"f", "o", "r", "e", "a", "c", "h", " ", "{", "i", " ", "j", "}", " ", "{", "a", " ", "b", " ", "c", "}", " ", "{", "a", "p", "p", "e", "n", "d", " ", "x", " ", "$", "j", " ", "$", "i", "}">>,
      \* foreach i {a b} j {d e f} {append x $i $j}
      <<"f", "o", "r", "e", "a", "c", "h", " ", "i", " ", "{", "a", " ", "b", "}", " ", "j", " ", "{", "d", " ", "e", " ", "f", "}", " ", "{", "a", "p", "p", "e", "n", "d", " ", "x", " ", "$", "i", " ", "$", "j", "}">>,
      \* foreach i {a b} {continue}
      <<"f", "o", "r", "e", "a", "c", "h", " ", "i", " ", "{", "a", " ", "b", "}", " ", "{", "c", "o", "n", "t", "i", "n", "u", "e", "}">>,
      \* foreach x {} {append log a}
      <<"f", "o", "r", "e", "a", "c", "h", " ", "x", " ", "{", "}", " ", "{", "a", "p", "p", "e", "n", "d", " ", "l", "o", "g", " ", "a", "}">>,
      \* foreach x { } {append log a}
      <<"f", "o", "r", "e", "a", "c", "h", " ", "x", " ", "{", " ", "}", " ", "{", "a", "p", "p", "e", "n", "d", " ", "l", "o", "g", " ", "a", "}">>,
      \* foreach i {} j {} {append log a}
      <<"f", "o", "r", "e", "a", "c", "h", " ", "i", " ", "{", "}", " ", "j", " ", "{", "}", " ", "{", "a", "p", "p", "e", "n", "d", " ", "l", "o", "g", " ", "a", "}">>,
      \* set foo abc; switch abc a - b {set r 1} $foo {set r 2} default {set r 3}
      <<"s", "e", "t", " ", "f", "o", "o", " ", "a", "b", "c", ";", " ", "s", "w", "i", "t", "c", "h", " ", "a", "b", "c", " ", "a", " ", "-", " ", "b", " ", "{", "s", "e", "t", " ", "r", " ", "1", "}", " ", "$", "f", "o", "o", " ", "{", "s", "e", "t", " ", "r", " ", "2", "}", " ", "d", "e", "f", "a", "u", "l", "t", " ", "{", "s", "e", "t", " ", "r", " ", "3", "}">>,
      \* switch -glob aaab {a*b - b {set r 1} a* {set r 2} default {set r 3}}
      <<"s", "w", "i", "t", "c", "h", " ", "-", "g", "l", "o", "b", " ", "a", "a", "a", "b", " ", "{", "a", "*", "b", " ", "-", " ", "b", " ", "{", "s", "e", "t", " ", "r", " ", "1", "}", " ", "a", "*", " ", "{", "s", "e", "t", " ", "r", " ", "2", "}", " ", "d", "e", "f", "a", "u", "l", "t", " ", "{", "s", "e", "t", " ", "r", " ", "3", "}", "}">>,
      \* switch xyz {a - b {set r 1} c {set r 2} default {set r 3}}
      <<"s", "w", "i", "t", "c", "h", " ", "x", "y", "z", " ", "{", "a", " ", "-", " ", "b", " ", "{", "s", "e", "t", " ", "r", " ", "1", "}", " ", "c", " ", "{", "s", "e", "t", " ", "r", " ", "2", "}", " ", "d", "e", "f", "a", "u", "l", "t", " ", "{", "s", "e", "t", " ", "r", " ", "3", "}", "}">>,
      \* switch b {a {set r 1} c {set r 2}}
      <<"s", "w", "i", "t", "c", "h", " ", "b", " ", "{", "a", " ", "{", "s", "e", "t", " ", "r", " ", "1", "}", " ", "c", " ", "{", "s", "e", "t", " ", "r", " ", "2", "}", "}">>,
      \* switch a a {set r 1}
      <<"s", "w", "i", "t", "c", "h", " ", "a", " ", "a", " ", "{", "s", "e", "t", " ", "r", " ", "1", "}">>,
      \* switch -glob a a* {set r 1} default {set r 2}
      <<"s", "w", "i", "t", "c", "h", " ", "-", "g", "l", "o", "b", " ", "a", " ", "a", "*", " ", "{", "s", "e", "t", " ", "r", " ", "1", "}", " ", "d", "e", "f", "a", "u", "l", "t", " ", "{", "s", "e", "t", " ", "r", " ", "2", "}">>,
      \* switch -glob aba ab {set r 1} default {set r 2}
      <<"s", "w", "i", "t", "c", "h", " ", "-", "g", "l", "o", "b", " ", "a", "b", "a", " ", "a", "b", " ", "{", "s", "e", "t", " ", "r", " ", "1", "}", " ", "d", "e", "f", "a", "u", "l", "t", " ", "{", "s", "e", "t", " ", "r", " ", "2", "}">>,
      \* switch -- a {a {error boom}}
      <<"s", "w", "i", "t", "c", "h", " ", "-", "-", " ", "a", " ", "{", "a", " ", "{", "e", "r", "r", "o", "r", " ", "b", "o", "o", "m", "}", "}">>,
      \* switch a {a {return v} default {set r 2}}
      <<"s", "w", "i", "t", "c", "h", " ", "a", " ", "{", "a", " ", "{", "r", "e", "t", "u", "r", "n", " ", "v", "}", " ", "d", "e", "f", "a", "u", "l", "t", " ", "{", "s", "e", "t", " ", "r", " ", "2", "}", "}">>,
      \* switch -exact b {a {set r 1} b - c {set r 3}}
      <<"s", "w", "i", "t", "c", "h", " ", "-", "e", "x", "a", "c", "t", " ", "b", " ", "{", "a", " ", "{", "s", "e", "t", " ", "r", " ", "1", "}", " ", "b", " ", "-", " ", "c", " ", "{", "s", "e", "t", " ", "r", " ", "3", "}", "}">>,
      \* switch
      <<"s", "w", "i", "t", "c", "h">>
    }

\* A script of FlowScripts on a new interpreter.
NextFlow ==
    \/ \E str \in FlowScripts : evals = 0 /\ EvalString(str)
    \/ EvalStringReturn
    \/ EvalToken
    \/ EvalJoin
    \/ CmdSet
    \/ CmdError
    \/ CmdBreak
    \/ CmdReturn
    \/ CmdMath
    \/ MathResume
    \/ CmdIf
    \/ IfResume
    \/ CmdAppend
    \/ CmdContinue
    \/ CmdForEach
    \/ ForEachResume
    \/ CmdSwitch
    \/ SwitchResume
    \/ EvalAfterSubst
    \/ EvalAfterCommand

SpecFlow == Init /\ [][NextFlow]_vars

\* ------------------------------------------------------- calls of lsort

MaxSorted == 3

\* The elements of the lists sorted: words, integers, and integers written
\* in more than one way.
SortWords == {<<"a">>, <<"b">>, <<"B">>, <<"1">>, <<"2">>, <<"1", "0">>, <<"0", "1">>, <<"0", "x", "5">>, <<"5">>, <<"-", "1">>}

SortOptions ==
    {<<>>, <<<<"-", "a", "s", "c", "i", "i">>>>, <<<<"-", "i", "n", "t", "e", "g", "e", "r">>>>, <<<<"-", "i", "n", "c", "r", "e", "a", "s", "i", "n", "g">>>>, <<<<"-", "d", "e", "c", "r", "e", "a", "s", "i", "n", "g">>>>,
     <<<<"-", "a", "s", "c", "i", "i">>, <<"-", "d", "e", "c", "r", "e", "a", "s", "i", "n", "g">>>>, <<<<"-", "i", "n", "t", "e", "g", "e", "r">>, <<"-", "i", "n", "c", "r", "e", "a", "s", "i", "n", "g">>>>,
     <<<<"-", "i", "n", "t", "e", "g", "e", "r">>, <<"-", "d", "e", "c", "r", "e", "a", "s", "i", "n", "g">>>>}

InitSort ==
    \E in \in [fn : {"cmdLSort"}, opts : SortOptions, words : Strings(SortWords, MaxSorted)] :
        Started(in)

\* lsort ?options? L for the list L of the words
CallLSort ==
    /\ Calls("NewTCL", "cmdLSort")
    /\ obs' = [obs EXCEPT !.ev = "cmdLSort",
                          !.act = [k |-> "none", L |-> Join(obs.args.words, <<" ">>)],
                          !.res = Returned(cmdLSort(Machine,
                                      <<<<"l", "s", "o", "r", "t">>>> \o obs.args.opts
                                          \o <<Join(obs.args.words, <<" ">>)>>))]

NextSort == CallLSort

SpecSort == InitSort /\ [][NextSort]_vars

\* ---------------------------------------------------------------- lappend

cmdLAppend(m, args) ==
    IF Len(args) < 2 THEN Return([m EXCEPT !.tcl.result = <<"l", "a", "p", "p", "e", "n", "d", " ", "l", "i", "s", "t", " ", "?", "v", "a", "l", "u", "e", "s">>], RetError)
    ELSE LET str == Join(SubSeq(args, 3, Len(args)), <<" ">>)
             g == GetVarValue(m.tcl, args[2])
             val == IF g.code = RetOk /\ g.value # <<>> THEN g.value \o <<" ">> \o str ELSE str
         IN ReturnResult([m EXCEPT !.tcl = SetVarValue(@, args[2], val)], RetOk, val)

\* ------------------------------------------------------ calls of lindex

MaxIndexed == 3

MaxIndex == 4

\* The lists indexed: up to MaxIndexed elements, and the same with a
\* doubled blank.
IndexLists ==
    {Join(w, <<" ">>) : w \in Strings({<<"a">>, <<"b">>, <<"{", "a", " ", "b", "}">>}, MaxIndexed)} \cup {<<"a", " ", " ", "b">>}

\* The index words: N, end and end-N, and the empty word.
IndexWords ==
    {<<>>, <<"e", "n", "d">>}
    \cup {ConvertNumberToString(n, 10) : n \in 0..MaxIndex}
    \cup {<<"e", "n", "d", "-">> \o ConvertNumberToString(n, 10) : n \in 0..MaxIndex}

\* L with one index word or none.
InitIndex ==
    \E in \in [fn : {"cmdLIndex"}, L : IndexLists,
               index : {<<>>} \cup {<<w>> : w \in IndexWords}] :
        Started(in)

\* lindex L ?index?
CallLIndexAt ==
    /\ Calls("NewTCL", "cmdLIndex")
    /\ obs' = [obs EXCEPT !.ev = "cmdLIndex",
                          !.res = Returned(cmdLIndex(Machine,
                                      <<<<"l", "i", "n", "d", "e", "x">>, obs.args.L>> \o obs.args.index))]

NextIndex == CallLIndexAt

SpecIndex == InitIndex /\ [][NextIndex]_vars

\* ----------------------------------------------------- calls of lappend

MaxAppended == 2

\* The elements appended: the empty string, words, a value with a blank and
\* a value in braces.
AppendWords == {<<>>, <<"a">>, <<"b">>, <<"a", " ", "b">>, <<"{", "a", "}">>}

\* The variable v before the call: no variable (<<>>) or its value.
AppendBefore == {<<>>, << <<>> >>, << <<"a">> >>, << <<"a", " ", "b">> >>, << <<"{", "a", " ", "b", "}", " ", "c">> >>}

InitAppend ==
    \E in \in [fn : {"cmdLAppend"}, before : AppendBefore,
               elems : Strings(AppendWords, MaxAppended)] :
        Started(in)

\* lappend v e1 .. ek, with v as obs.args.before has it
CallLAppend ==
    /\ obs.ev = "NewTCL"
    /\ obs.args.fn = "cmdLAppend"
    /\ LET t == IF obs.args.before = <<>> THEN tcl
                ELSE SetVarValue(tcl, <<"v">>, obs.args.before[1])
           m == cmdLAppend([Machine EXCEPT !.tcl = t], <<<<"l", "a", "p", "p", "e", "n", "d">>, <<"v">>>> \o obs.args.elems)
       IN /\ tcl' = m.tcl
          /\ obs' = [obs EXCEPT !.ev = "cmdLAppend", !.res = Returned(m)]
    /\ UNCHANGED <<stack, pc, ret, evals, err>>

NextAppend == CallLAppend

SpecAppend == InitAppend /\ [][NextAppend]_vars

\* -------------------------------------------------------- calls of lset

MaxPath == 2

MaxLSetIndex == 2

\* The values of the variable x: flat lists, lists of lists, the empty list.
LSetLists == {<<>>, <<"a">>, <<"a", " ", "b", " ", "c">>, <<"{", "a", " ", "b", "}", " ", "c">>, <<"{", "a", " ", "b", "}", " ", "{", "c", " ", "d", "}">>}

LSetValues == {<<>>, <<"j">>, <<"j", " ", "k">>}

InitLSet ==
    \E in \in [fn : {"cmdLSet"}, L : LSetLists, v : LSetValues,
               path : Strings(0..MaxLSetIndex, MaxPath)] :
        Started(in)

\* cmdLSet on the words of `lset x i1 .. ik v`, x holding obs.args.L
LSetCall ==
    cmdLSet([Machine EXCEPT !.tcl = SetVarValue(tcl, <<"x">>, obs.args.L)],
            <<<<"l", "s", "e", "t">>, <<"x">>>>
                \o [j \in 1..Len(obs.args.path) |->
                       ConvertNumberToString(obs.args.path[j], 10)]
                \o <<obs.args.v>>)

\* lset x i1 .. ik v, with x holding obs.args.L
CallLSet ==
    /\ obs.ev = "NewTCL"
    /\ obs.args.fn = "cmdLSet"
    /\ obs' = [obs EXCEPT !.ev = "cmdLSet", !.res = LSetCall]
    /\ tcl' = obs'.res.tcl
    /\ UNCHANGED <<stack, pc, ret, evals, err>>

NextLSet == CallLSet

SpecLSet == InitLSet /\ [][NextLSet]_vars

\* ------------------------------------------------------- words of a script

MaxParts == 3

\* The parts of a word with variables: a character that is no part of a
\* name, the two forms of the variable a, and a `$` by itself.
VarParts == {<<"-">>, <<"$", "a">>, <<"$", "{", "a", "}">>, <<"$">>}

VarWords == Strings(VarParts, MaxParts) \ {<<>>}

\* The contents of a braced word: plain text, a variable, a command, a
\* backslash sequence, a blank, nested braces, an escaped brace.
BraceTexts ==
    {<<>>, <<"q">>, <<"$", "a">>, <<"[", "s", "e", "t", " ", "a", "]">>, <<"\\", "n">>, <<"q", " ", "r">>, <<"{", "q", "}">>, <<"p", "{", "$", "a", "}", "r">>, <<"\\", "{">>, <<"\\", "}", "q">>, <<"{", " ", "{", "}", " ", "}">>}

\* What comes in a word before a `{`: text, a variable, a command, a quoted
\* string, a braced word.
BracePrefixes == {<<"p">>, <<"$", "a">>, <<"[", "s", "e", "t", " ", "a", "]">>, <<"\"", "p", "\"">>, <<"{", "p", "}">>}

\* The script that sets a and then x to the word.
WordScript(word) == <<"s", "e", "t", " ", "a", " ", "v", ";", " ", "s", "e", "t", " ", "x", " ">> \o word

WordScripts ==
    {WordScript(Join(w, <<>>)) : w \in VarWords}
    \cup {WordScript(<<"\"">> \o Join(w, <<>>) \o <<"\"">>) : w \in VarWords}
    \cup {WordScript(<<"{">> \o t \o <<"}">>) : t \in BraceTexts}
    \cup {WordScript(pre \o <<"{", "q", "}">>) : pre \in BracePrefixes}

NextWord ==
    \/ \E str \in WordScripts : evals = 0 /\ EvalString(str)
    \/ EvalStringReturn
    \/ EvalToken
    \/ CmdSet
    \/ EvalAfterSubst
    \/ EvalAfterCommand

SpecWord == Init /\ [][NextWord]_vars

\* ------------------------------------------------------- calls of upvar

\* The scripts the host passes to EvalString for upvar: the variable named
\* exists in the target frame or not, the alias is a new name or a name
\* the current frame has.
UpVarScripts ==
    {
      \* proc v {var} { upvar $var v; if [catch {set v}] {return 0} else {return 1}}; v x
      <<"p", "r", "o", "c", " ", "v", " ", "{", "v", "a", "r", "}", " ", "{", " ", "u", "p", "v", "a", "r", " ", "$", "v", "a", "r", " ", "v", ";", " ", "i", "f", " ", "[", "c", "a", "t", "c", "h", " ", "{", "s", "e", "t", " ", "v", "}", "]", " ", "{", "r", "e", "t", "u", "r", "n", " ", "0", "}", " ", "e", "l", "s", "e", " ", "{", "r", "e", "t", "u", "r", "n", " ", "1", "}", "}", ";", " ", "v", " ", "x">>,
      \* proc v {var} { upvar $var v; if [catch {set v}] {return 0} else {return 1}}; set x 1; v x
      <<"p", "r", "o", "c", " ", "v", " ", "{", "v", "a", "r", "}", " ", "{", " ", "u", "p", "v", "a", "r", " ", "$", "v", "a", "r", " ", "v", ";", " ", "i", "f", " ", "[", "c", "a", "t", "c", "h", " ", "{", "s", "e", "t", " ", "v", "}", "]", " ", "{", "r", "e", "t", "u", "r", "n", " ", "0", "}", " ", "e", "l", "s", "e", " ", "{", "r", "e", "t", "u", "r", "n", " ", "1", "}", "}", ";", " ", "s", "e", "t", " ", "x", " ", "1", ";", " ", "v", " ", "x">>,
      \* proc v {var} {upvar $var w; set w}; set x 7; v x
      <<"p", "r", "o", "c", " ", "v", " ", "{", "v", "a", "r", "}", " ", "{", "u", "p", "v", "a", "r", " ", "$", "v", "a", "r", " ", "w", ";", " ", "s", "e", "t", " ", "w", "}", ";", " ", "s", "e", "t", " ", "x", " ", "7", ";", " ", "v", " ", "x">>,
      \* proc v {var} {upvar $var w; set w}; v x
      <<"p", "r", "o", "c", " ", "v", " ", "{", "v", "a", "r", "}", " ", "{", "u", "p", "v", "a", "r", " ", "$", "v", "a", "r", " ", "w", ";", " ", "s", "e", "t", " ", "w", "}", ";", " ", "v", " ", "x">>,
      \* proc v {var} {upvar $var var; set var}; v x
      <<"p", "r", "o", "c", " ", "v", " ", "{", "v", "a", "r", "}", " ", "{", "u", "p", "v", "a", "r", " ", "$", "v", "a", "r", " ", "v", "a", "r", ";", " ", "s", "e", "t", " ", "v", "a", "r", "}", ";", " ", "v", " ", "x">>,
      \* proc v {var} {upvar $var var; set var}; set x 7; v x
      <<"p", "r", "o", "c", " ", "v", " ", "{", "v", "a", "r", "}", " ", "{", "u", "p", "v", "a", "r", " ", "$", "v", "a", "r", " ", "v", "a", "r", ";", " ", "s", "e", "t", " ", "v", "a", "r", "}", ";", " ", "s", "e", "t", " ", "x", " ", "7", ";", " ", "v", " ", "x">>,
      \* set x 1; proc v {} {upvar #0 x y; set y}; v
      <<"s", "e", "t", " ", "x", " ", "1", ";", " ", "p", "r", "o", "c", " ", "v", " ", "{", "}", " ", "{", "u", "p", "v", "a", "r", " ", "#", "0", " ", "x", " ", "y", ";", " ", "s", "e", "t", " ", "y", "}", ";", " ", "v">>,
      \* proc v {} {upvar #0 x y; catch {set y}}; v
      <<"p", "r", "o", "c", " ", "v", " ", "{", "}", " ", "{", "u", "p", "v", "a", "r", " ", "#", "0", " ", "x", " ", "y", ";", " ", "c", "a", "t", "c", "h", " ", "{", "s", "e", "t", " ", "y", "}", "}", ";", " ", "v">>,
      \* set y 2; upvar x y; set y
      <<"s", "e", "t", " ", "y", " ", "2", ";", " ", "u", "p", "v", "a", "r", " ", "x", " ", "y", ";", " ", "s", "e", "t", " ", "y">>,
      \* proc g {} {upvar 2 x z; catch {set z}}; proc f {} {g}; f
      <<"p", "r", "o", "c", " ", "g", " ", "{", "}", " ", "{", "u", "p", "v", "a", "r", " ", "2", " ", "x", " ", "z", ";", " ", "c", "a", "t", "c", "h", " ", "{", "s", "e", "t", " ", "z", "}", "}", ";", " ", "p", "r", "o", "c", " ", "f", " ", "{", "}", " ", "{", "g", "}", ";", " ", "f">>,
      \* set x 3; proc g {} {upvar 2 x z; set z}; proc f {} {g}; f
      <<"s", "e", "t", " ", "x", " ", "3", ";", " ", "p", "r", "o", "c", " ", "g", " ", "{", "}", " ", "{", "u", "p", "v", "a", "r", " ", "2", " ", "x", " ", "z", ";", " ", "s", "e", "t", " ", "z", "}", ";", " ", "p", "r", "o", "c", " ", "f", " ", "{", "}", " ", "{", "g", "}", ";", " ", "f">>
    }

\* A script of UpVarScripts is evaluated.
NextUpVar ==
    \/ \E str \in UpVarScripts : evals = 0 /\ EvalString(str)
    \/ EvalStringReturn
    \/ EvalToken
    \/ EvalJoin
    \/ UserProc
    \/ UserProcResume
    \/ CmdCatch
    \/ CatchResume
    \/ CmdMath
    \/ MathResume
    \/ CmdIf
    \/ IfResume
    \/ CmdProc
    \/ CmdReturn
    \/ CmdSet
    \/ CmdUpVar
    \/ EvalAfterSubst
    \/ EvalAfterCommand

SpecUpVar == Init /\ [][NextUpVar]_vars

\* ---------------------------------------------------- calls of expr a / b

MaxDividend == 7

MaxDivisor == 3

DivScripts ==
    {<<"e", "x", "p", "r", " ">> \o ConvertNumberToString(a, 10) \o <<" ", "/", " ">> \o ConvertNumberToString(b, 10) :
         a \in (-MaxDividend)..MaxDividend, b \in (-MaxDivisor)..MaxDivisor}

NextDiv ==
    \/ \E str \in DivScripts : evals = 0 /\ EvalString(str)
    \/ EvalStringReturn
    \/ EvalToken
    \/ EvalJoin
    \/ CmdMath
    \/ MathResume
    \/ EvalAfterCommand

SpecDiv == Init /\ [][NextDiv]_vars

\* ------------------------------------------------------ calls of getToken

MaxInput == 3

TokenChars == {"a", "\\", "#", "\"", "{", "}", "\n", "$", "[", "]", " "}

TokenInputs == Strings(TokenChars, MaxInput) \ {<<>>}

TokenOptions ==
    [noCommands : BOOLEAN, noEscapes : BOOLEAN, noVars : BOOLEAN,
     noEval : BOOLEAN, subst : BOOLEAN]

InitToken ==
    \E in \in [fn : {"getToken"}, str : TokenInputs, options : TokenOptions] :
        Started(in)

\* p := newParser(str, opts)
CallNewParser ==
    /\ obs.ev = "NewTCL"
    /\ obs.args.fn = "getToken"
    /\ obs' = [obs EXCEPT !.ev = "newParser",
                          !.res = [p |-> newParser(obs.args.str, obs.args.options),
                                   from |-> 0, calls |-> 0]]
    /\ UNCHANGED <<tcl, stack, pc, ret, evals, err>>

\* p.getToken(), in the loop of eval and of ParseArgs: called again until it
\* returns false or the token is tokEOF
CallGetToken ==
    /\ obs.ev \in {"newParser", "getToken"}
    /\ obs.res.p.ok
    /\ obs.res.p.token # tokEOF
    /\ obs' = [obs EXCEPT !.ev = "getToken",
                          !.res = [p |-> getToken(obs.res.p),
                                   from |-> obs.res.p.pos,
                                   calls |-> obs.res.calls + 1]]
    /\ UNCHANGED <<tcl, stack, pc, ret, evals, err>>

NextToken == CallNewParser \/ CallGetToken

SpecToken == InitToken /\ [][NextToken]_vars

\* ------------------------------------------------------------ string map

HasPrefix(s, prefix) ==
    Len(prefix) <= Len(s) /\ SubSeq(s, 1, Len(prefix)) = prefix

\* The locals of stringMap before its loop, mapping being what ParseArgs
\* returned for args[i].
stringMapLocals(nocase, str, mapping) ==
    IF mapping.panic THEN [k |-> "panic"]
    ELSE [k |-> "loop", nocase |-> nocase, res |-> <<>>, index |-> 0, str |-> str,
          match |-> IF nocase THEN ToLower(str) ELSE str,
          mapping |-> mapping.list]

\* stringMap from the test of the number of arguments on; i is a Go index.
stringMapFrom(args, nocase, i) ==
    IF Len(args) > i + 2
    THEN [k |-> "return", r |-> RetError,
          result |-> <<"s", "t", "r", "i", "n", "g", " ", "m", "a", "p", " ", "?", "-", "n", "o", "c", "a", "s", "e", " ", "m", "a", "p", "p", "i", "n", "g", " ", "s", "t", "r", "i", "n", "g">>]
    ELSE IF Len(args) < i + 2 THEN [k |-> "panic"]
    ELSE stringMapLocals(nocase, args[i + 2], ParseArgs(args[i + 1]))

\* stringMap up to its loop: the locals of the handler, or how it left.
\* Reading args[2] or args[i+1] of a shorter args panics.
stringMapBegin(args) ==
    IF Len(args) < 3 THEN [k |-> "panic"]
    ELSE IF args[3] = <<"-", "n", "o", "c", "a", "s", "e">> THEN stringMapFrom(args, TRUE, 3)
    ELSE stringMapFrom(args, FALSE, 2)

\* One pass of `for index < len(str)`: the first pair whose key is a prefix
\* of match[index:] replaces it, mapping[i+1] read without a test of the
\* length; without such a pair one character is copied.
stringMapStep(f) ==
    LET rest == SubSeq(f.match, f.index + 1, Len(f.match))
        key(i) == IF f.nocase THEN ToLower(f.mapping[i + 1]) ELSE f.mapping[i + 1]
        hits == {i \in 0..(Len(f.mapping) - 1) : i % 2 = 0 /\ HasPrefix(rest, key(i))}
    IN IF hits = {}
       THEN [f EXCEPT !.res = @ \o <<f.str[f.index + 1]>>, !.index = @ + 1]
       ELSE LET i == CHOOSE j \in hits : \A h \in hits : j <= h
            IN IF i + 1 >= Len(f.mapping) THEN [k |-> "panic"]
               ELSE [f EXCEPT !.res = @ \o f.mapping[i + 2],
                              !.index = @ + Len(f.mapping[i + 1])]

\* ------------------------------------------------------ calls of string map

MaxMapped == 12

MaxMapString == 3

MapMappings ==
    {<<>>, <<"a">>, <<"a", " ", "b">>, <<"a", " ", "{", "}">>, <<"{", "}", " ", "b">>, <<"{", "}", " ", "{", "}">>, <<"a", " ", "b", " ", "b">>, <<"a", " ", "b", " ", "{", "}">>, <<"a", "b", " ", "c", " ", "a", " ", "d">>,
     <<"b", " ", "a", " ", "a", " ", "b">>, <<"A", " ", "b">>, <<"{">>, <<"a", "b", "c", " ", "1", " ", "a", "b", " ", "2", " ", "a", " ", "3", " ", "1", " ", "0">>, <<"1", " ", "0", " ", "a", "b", " ", "2", " ", "a", " ", "3", " ", "a", "b", "c", " ", "1">>}

MapStrings ==
    Strings({"a", "b", "A"}, MaxMapString) \cup {<<"1", "a", "b", "c", "a", "a", "b", "a", "b", "c", "a", "b", "a", "b", "a", "b", "c">>, <<"1", "a", "b", "c", "a", "a", "b", "a", "b", "c", "e", "f", "a", "b", "a", "b", "a", "b", "c">>}

InitMap ==
    \E in \in [fn : {"stringMap"}, nocase : BOOLEAN, mapping : MapMappings,
               str : MapStrings] :
        Started(in)

\* string map ?-nocase? mapping str, up to the loop
CallStringMap ==
    /\ obs.ev = "NewTCL"
    /\ obs.args.fn = "stringMap"
    /\ obs' = [obs EXCEPT !.ev = "stringMap",
                          !.res = [f |-> stringMapBegin(
                                       <<<<"s", "t", "r", "i", "n", "g">>, <<"m", "a", "p">>>>
                                       \o (IF obs.args.nocase
                                           THEN <<<<"-", "n", "o", "c", "a", "s", "e">>>> ELSE <<>>)
                                       \o <<obs.args.mapping, obs.args.str>>),
                                   from |-> 0]]
    /\ tcl' = IF obs'.res.f.k = "return" THEN SetResult(tcl, obs'.res.f.result) ELSE tcl
    /\ UNCHANGED <<stack, pc, ret, evals, err>>

\* one pass of the loop of stringMap
StringMapLoop ==
    /\ obs.ev \in {"stringMap", "stringMapLoop"}
    /\ obs.res.f.k = "loop"
    /\ obs.res.f.index < Len(obs.res.f.str)
    /\ Len(obs.res.f.res) < MaxMapped
    /\ obs' = [obs EXCEPT !.ev = "stringMapLoop",
                          !.res = [f |-> stringMapStep(obs.res.f),
                                   from |-> obs.res.f.index]]
    /\ UNCHANGED <<tcl, stack, pc, ret, evals, err>>

\* return tcl.SetResult(RetOk, res)
StringMapReturn ==
    /\ obs.ev \in {"stringMap", "stringMapLoop"}
    /\ obs.res.f.k = "loop"
    /\ obs.res.f.index >= Len(obs.res.f.str)
    /\ obs' = [obs EXCEPT !.ev = "stringMapReturn",
                          !.res = [f |-> [k |-> "return", r |-> RetOk,
                                          result |-> obs.res.f.res],
                                   from |-> obs.res.f.index]]
    /\ tcl' = SetResult(tcl, obs.res.f.res)
    /\ UNCHANGED <<stack, pc, ret, evals, err>>

NextMap == CallStringMap \/ StringMapLoop \/ StringMapReturn

SpecMap == InitMap /\ [][NextMap]_vars

\* ---------------------------------------------------------------- telnet

tnIAC == 255
tnDONT == 254
tnDO == 253
tnWONT == 252
tnWILL == 251
tnSB == 250
tnBRK == 243
tnSE == 240

tnStateData == 1
tnStateIAC == 2
tnStateWILL == 3
tnStateDO == 4
tnStateDONT == 5
tnStateWONT == 6
tnStateSKIP == 7
tnStateSB == 8
tnStateSE == 9
tnStateSBIS == 10
tnStateSTerm == 12

tnOptionBinary == 0
tnOptionEcho == 1
tnOptionSGA == 3
tnOptionTerm == 24
tnOptionEOR == 25

tnFlagDo == 1
tnFlagDont == 2
tnFlagWill == 4
tnFlagWont == 8

\* tnState; optionState[o] is the set of the flag bits that are set, and
\* conn holds the bytes written to the connection.
openTelnet ==
    [optionState |-> [o \in 0..255 |-> {}], sbtype |-> 0, state |-> tnStateData,
     conn |-> <<>>]

sendOption(state, setState, option) ==
    LET flag == IF setState = tnWILL THEN {tnFlagWill}
                ELSE IF setState = tnWONT THEN {tnFlagWont}
                ELSE IF setState = tnDO THEN {tnFlagDo}
                ELSE IF setState = tnDONT THEN {tnFlagDont}
                ELSE {}
    IN [state EXCEPT !.conn = @ \o <<tnIAC, setState, option>>,
                     !.optionState[option] = @ \cup flag]

handleDO(state, input) ==
    LET will == tnFlagWill \in state.optionState[input]
        dont == IF will THEN [state EXCEPT !.optionState[input] = @ \cup {tnFlagDont}]
                ELSE state
    IN IF input = tnOptionTerm THEN sendOption(dont, tnWONT, input)
       ELSE IF input = tnOptionSGA THEN dont
       ELSE IF input = tnOptionEcho THEN dont
       ELSE IF input = tnOptionEOR
       THEN [state EXCEPT !.optionState[input] = @ \cup {tnFlagDo}]
       ELSE IF input = tnOptionBinary
       THEN IF tnFlagDo \notin state.optionState[input]
            THEN sendOption(state, tnDO, input) ELSE state
       ELSE IF tnFlagWont \notin state.optionState[input]
            THEN sendOption(state, tnWONT, input) ELSE state

handleWILL(state, input) ==
    IF tnFlagDont \notin state.optionState[input]
    THEN sendOption(state, tnDONT, input) ELSE state

\* The bytes sendTelnet writes to the connection.
sendTelnet(output) ==
    LET RECURSIVE buffer(_)
        buffer(i) ==
            IF i > Len(output) THEN <<>>
            ELSE (IF output[i] = tnIAC THEN <<output[i], tnIAC>> ELSE <<output[i]>>)
                     \o buffer(i + 1)
    IN buffer(1)

\* The body of the loop of receiveTelnet for one byte: the state after it
\* and what it appends to out.
receiveByte(tn, ch) ==
    LET to(s) == [tn |-> [tn EXCEPT !.state = s], out |-> <<>>]
    IN IF tn.state = tnStateData THEN
           IF ch = tnIAC THEN to(tnStateIAC) ELSE [tn |-> tn, out |-> <<ch>>]
       ELSE IF tn.state = tnStateIAC THEN
           IF ch = tnIAC THEN to(tnStateData)
           ELSE IF ch = tnBRK THEN to(tnStateData)
           ELSE IF ch = tnWILL THEN to(tnStateWILL)
           ELSE IF ch = tnWONT THEN to(tnStateWONT)
           ELSE IF ch = tnDO THEN to(tnStateDO)
           ELSE IF ch = tnDONT THEN to(tnStateDONT)
           ELSE IF ch = tnSB THEN to(tnStateSB)
           ELSE to(tnStateSKIP)
       ELSE IF tn.state = tnStateWILL THEN
           [tn |-> [handleWILL(tn, ch) EXCEPT !.state = tnStateData], out |-> <<>>]
       ELSE IF tn.state = tnStateWONT THEN
           [tn |-> [(IF tnFlagWont \notin tn.optionState[ch]
                     THEN sendOption(tn, tnWONT, ch) ELSE tn)
                    EXCEPT !.state = tnStateData],
            out |-> <<>>]
       ELSE IF tn.state = tnStateDO THEN
           [tn |-> [handleDO(tn, ch) EXCEPT !.state = tnStateData], out |-> <<>>]
       ELSE IF tn.state = tnStateDONT THEN to(tnStateData)
       ELSE IF tn.state = tnStateSKIP THEN to(tnStateData)
       ELSE IF tn.state = tnStateSB THEN
           [tn |-> [tn EXCEPT !.sbtype = ch, !.state = tnStateSBIS], out |-> <<>>]
       ELSE IF tn.state = tnStateSBIS THEN
           IF tn.sbtype = tnOptionTerm THEN to(tnStateSTerm) ELSE to(tnStateSE)
       ELSE IF tn.state = tnStateSTerm THEN
           IF ch = tnIAC THEN to(tnStateSE) ELSE [tn |-> tn, out |-> <<>>]
       ELSE IF tn.state = tnStateSE THEN
           IF ch = tnSE THEN to(tnStateData) ELSE [tn |-> tn, out |-> <<>>]
       ELSE [tn |-> tn, out |-> <<>>]

\* receiveTelnet(input, len): input[i] of an input shorter than len panics.
receiveTelnet(tn, input, len) ==
    LET RECURSIVE loop(_, _, _)
        loop(t, out, i) ==
            IF i >= len THEN [tn |-> t, out |-> out, panic |-> FALSE]
            ELSE IF i >= Len(input) THEN [tn |-> t, out |-> out, panic |-> TRUE]
            ELSE LET r == receiveByte(t, input[i + 1])
                 IN loop(r.tn, out \o r.out, i + 1)
    IN loop(tn, <<>>, 0)

\* ------------------------------------------- calls of sendTelnet, receiveTelnet

MaxBytes == 3

TelnetBytes == {0, 65, tnSE, tnIAC}

InitTelnet ==
    \E in \in [fn : {"sendTelnet"}, output : Strings(TelnetBytes, MaxBytes)] :
        Started(in)

\* sendTelnet(output) of the sender; the written bytes are on their way to a
\* receiver that openTelnet has made
CallSendTelnet ==
    /\ obs.ev = "NewTCL"
    /\ obs.args.fn = "sendTelnet"
    /\ obs' = [obs EXCEPT !.ev = "sendTelnet",
                          !.res = [tn |-> openTelnet, wire |-> sendTelnet(obs.args.output),
                                   data |-> <<>>, panic |-> FALSE]]
    /\ UNCHANGED <<tcl, stack, pc, ret, evals, err>>

\* receiveTelnet(input, len) of the receiver on the next len bytes written
CallReceiveTelnet ==
    /\ obs.ev \in {"sendTelnet", "receiveTelnet"}
    /\ ~obs.res.panic
    /\ \E len \in 1..Len(obs.res.wire) :
           LET r == receiveTelnet(obs.res.tn, SubSeq(obs.res.wire, 1, len), len)
           IN obs' = [obs EXCEPT !.ev = "receiveTelnet",
                                 !.res = [tn |-> r.tn,
                                          wire |-> SubSeq(obs.res.wire, len + 1,
                                                          Len(obs.res.wire)),
                                          data |-> obs.res.data \o r.out,
                                          panic |-> r.panic]]
    /\ UNCHANGED <<tcl, stack, pc, ret, evals, err>>

NextTelnet == CallSendTelnet \/ CallReceiveTelnet

SpecTelnet == InitTelnet /\ [][NextTelnet]_vars

\* -------------------------------------------------- two interpreters

MaxTwoEvals == 3

\* The scripts the host passes to EvalString of either interpreter.
TwoScripts ==
    {
      \* set x 1
      <<"s", "e", "t", " ", "x", " ", "1">>,
      \* set x
      <<"s", "e", "t", " ", "x">>,
      \* set y 2; incr y
      <<"s", "e", "t", " ", "y", " ", "2", ";", " ", "i", "n", "c", "r", " ", "y">>,
      \* proc f {a} {set x $a; return [set x]}; f 3
      <<"p", "r", "o", "c", " ", "f", " ", "{", "a", "}", " ", "{", "s", "e", "t", " ", "x", " ", "$", "a", ";", " ", "r", "e", "t", "u", "r", "n", " ", "[", "s", "e", "t", " ", "x", "]", "}", ";", " ", "f", " ", "3">>,
      \* f 4
      <<"f", " ", "4">>,
      \* rename set put
      <<"r", "e", "n", "a", "m", "e", " ", "s", "e", "t", " ", "p", "u", "t">>,
      \* unset x
      <<"u", "n", "s", "e", "t", " ", "x">>
    }

\* The objects of the Go heap the interpreters are made of: the Tcl
\* structs, the command maps, and the environments with their variables.
\* An interpreter is the addresses of its three objects.
EmptyHeap == [structs |-> <<>>, maps |-> <<>>, envs |-> <<>>]

\* NewTCL with the command map shared between the interpreters.
NewTCLShared(h) ==
    [self |-> Len(h.structs) + 1, cmds |-> 1, env |-> Len(h.envs) + 1]

\* NewTCL: &Tcl{}, make(map[string]*tclCmd) and newEnv() are new objects.
NewTCL(h) ==
    [self |-> Len(h.structs) + 1, cmds |-> Len(h.maps) + 1, env |-> Len(h.envs) + 1]

\* The object at address i of objs written.
put(objs, i, v) == IF i > Len(objs) THEN Append(objs, v) ELSE [objs EXCEPT ![i] = v]

\* The heap after the interpreter at p has become t.
store(h, p, t) ==
    [structs |-> put(h.structs, p.self, [env |-> t.env, level |-> t.level, result |-> t.result]),
     maps |-> put(h.maps, p.cmds, t.cmds),
     envs |-> put(h.envs, p.env, [frames |-> t.frames, cells |-> t.cells, aliases |-> t.aliases])]

\* The interpreter at p.
load(h, p) ==
    [env |-> h.structs[p.self].env, level |-> h.structs[p.self].level,
     cmds |-> h.maps[p.cmds], result |-> h.structs[p.self].result,
     frames |-> h.envs[p.env].frames, cells |-> h.envs[p.env].cells,
     aliases |-> h.envs[p.env].aliases]

\* What NewTCL leaves in the objects it made.
created ==
    [env |-> 1, level |-> 0, cmds |-> tclInitCommands, result |-> <<>>,
     frames |-> << [vars |-> EmptyMap, local |-> EmptyMap, parent |-> 0,
                    level |-> 0, args |-> <<>>] >>,
     cells |-> <<>>, aliases |-> {}]

\* a := NewTCL(); b := NewTCL()
InitTwo ==
    LET a == NewTCL(EmptyHeap)
        h == store(EmptyHeap, a, created)
        b == NewTCL(h)
    IN /\ obs = [ev |-> "NewTCL", on |-> 1, tcls |-> <<a, b>>,
                 heap |-> store(h, b, created), str |-> <<>>]
       /\ tcl = load(obs.heap, obs.tcls[1])
       /\ stack = <<>>
       /\ pc = "idle"
       /\ ret = RetOk
       /\ evals = 0
       /\ err = "nil"

\* EvalString of the interpreter obs.tcls[i], up to its eval.
EvalStringOn(i, str) ==
    /\ pc = "idle"
    /\ evals < MaxTwoEvals
    /\ Becomes(eval([tcl |-> load(obs.heap, obs.tcls[i]),
                     stack |-> << [k |-> "EvalString", str |-> str] >>,
                     pc |-> pc, ret |-> ret], str, DefaultOptions))
    /\ obs' = [obs EXCEPT !.ev = "EvalString", !.on = i, !.str = str,
                          !.heap = store(obs.heap, obs.tcls[i], tcl')]
    /\ evals' = evals + 1
    /\ UNCHANGED err

\* The step ev has been made on the interpreter under evaluation.
Stored(ev) ==
    /\ obs' = [obs EXCEPT !.ev = ev, !.heap = store(obs.heap, obs.tcls[obs.on], tcl')]
    /\ UNCHANGED <<evals, err>>

\* EvalString from the return of its eval.
EvalStringReturnOn ==
    /\ pc = "ret"
    /\ Top(Machine).k = "EvalString"
    /\ pc' = "idle"
    /\ stack' = <<>>
    /\ err' = IF ret = RetOk THEN "nil" ELSE IF ret = RetExit THEN "exit" ELSE "error"
    /\ obs' = [obs EXCEPT !.ev = "EvalStringReturn"]
    /\ UNCHANGED <<tcl, ret, evals>>

\* A turn of the loop of eval on a token other than the end of a line.
EvalTokenOn ==
    /\ Running
    /\ ~AtEol
    /\ Becomes(evalToken(Machine, Scanned))
    /\ Stored("evalToken")

\* The end of a line: doCommand calls the function fn the entry name holds.
CommandOn(name, fn(_, _)) ==
    /\ Running
    /\ AtEol
    /\ ~Top(Machine).p.options.noEval
    /\ Handler = name
    /\ Becomes(evalCommand(Machine, Scanned, fn))
    /\ Stored(name)

\* The return of a call to the activation that made it.
ResumeOn(k, wait, resume(_)) ==
    /\ pc = "ret"
    /\ Top(Machine).k = k
    /\ k = "eval" => Top(Machine).wait = wait
    /\ Becomes(resume(Machine))
    /\ Stored(k \o "Resume")

DoCommandOn == CommandOn("none", callNil)

NilCommandOn == CommandOn("nil", callNil)

UserProcOn == CommandOn("userProc", callUserProc)

CmdIncrOn == CommandOn("cmdIncr", cmdIncr)

CmdProcOn == CommandOn("cmdProc", cmdProc)

CmdRenameOn == CommandOn("cmdRename", cmdRename)

CmdReturnOn == CommandOn("cmdReturn", cmdReturn)

CmdSetOn == CommandOn("cmdSet", cmdSet)

CmdUnSetOn == CommandOn("cmdUnSet", cmdUnSet)

EvalAfterSubstOn == ResumeOn("eval", "tokCmd", evalAfterSubst)

EvalAfterCommandOn == ResumeOn("eval", "cmd", evalAfterCommand)

UserProcResumeOn == ResumeOn("userProc", "", userProcResume)

NextTwo ==
    \/ \E i \in {1, 2} : \E str \in TwoScripts : EvalStringOn(i, str)
    \/ EvalStringReturnOn
    \/ EvalTokenOn
    \/ DoCommandOn
    \/ NilCommandOn
    \/ UserProcOn
    \/ CmdIncrOn
    \/ CmdProcOn
    \/ CmdRenameOn
    \/ CmdReturnOn
    \/ CmdSetOn
    \/ CmdUnSetOn
    \/ EvalAfterSubstOn
    \/ EvalAfterCommandOn
    \/ UserProcResumeOn

SpecTwo == InitTwo /\ [][NextTwo]_vars

\* ================================================================ claims

\* A frame reads a name: the name is bound there.
Bound(t, frame, name) == name \in DOMAIN t.frames[frame].vars

CellOf(t, frame, name) == t.frames[frame].vars[name]

ValueOf(t, frame, name) == t.cells[CellOf(t, frame, name)].value

\* The number of parent links from a frame to the top-level frame.
RECURSIVE Links(_, _)
Links(frames, frame) ==
    IF frames[frame].parent = 0 THEN 0 ELSE 1 + Links(frames, frames[frame].parent)

\* The step just taken is the return of userProc; the frame it popped is
\* the one it had pushed over the interpreter obs.act.before.
ProcReturned == obs.ev = "userProcResume"

ProcFrame == Len(obs.act.before.frames) + 1

CallerFrame == obs.act.before.env

\* The variables the procedure made in its own frame: its parameters and
\* what its body first assigned there.
ProcLocals ==
    {n \in DOMAIN tcl.frames[ProcFrame].vars :
        tcl.cells[CellOf(tcl, ProcFrame, n)].owner = ProcFrame}

\* No cell made in the procedure's frame is bound in the caller's frame.
NoLocalVisible ==
    \A n \in DOMAIN tcl.frames[CallerFrame].vars :
        tcl.cells[CellOf(tcl, CallerFrame, n)].owner # ProcFrame

\* C1 as amended: after a user procedure returns, with any status, no
\* variable made in the procedure's frame is visible in the caller's frame,
\* and a caller variable with the name of a procedure-local variable is a
\* cell of its own that holds the value it had before the call unless it
\* was assigned, unset or relinked from outside the procedure-local
\* variable: through an upvar or global link or by an uplevel script.
C1_ScopeIsolation ==
    ProcReturned =>
        /\ NoLocalVisible
        /\ \A n \in ProcLocals :
               Bound(obs.act.before, CallerFrame, n) =>
                   \/ ~Bound(tcl, CallerFrame, n)
                   \/ CellOf(tcl, CallerFrame, n) # CellOf(obs.act.before, CallerFrame, n)
                   \/ /\ CellOf(tcl, CallerFrame, n) # CellOf(tcl, ProcFrame, n)
                      /\ \/ ValueOf(tcl, CallerFrame, n) = ValueOf(obs.act.before, CallerFrame, n)
                         \/ <<tcl.cells[CellOf(tcl, CallerFrame, n)].wf,
                              tcl.cells[CellOf(tcl, CallerFrame, n)].wn>> # <<ProcFrame, n>>

\* C1 as stated: after a user procedure returns, no variable made in the
\* procedure's frame is visible in the caller's frame and every caller
\* variable with the name of a procedure-local variable holds the value it
\* had before the call.
C1_AsStated ==
    ProcReturned =>
        /\ NoLocalVisible
        /\ \A n \in ProcLocals :
               Bound(obs.act.before, CallerFrame, n) =>
                   /\ Bound(tcl, CallerFrame, n)
                   /\ ValueOf(tcl, CallerFrame, n) = ValueOf(obs.act.before, CallerFrame, n)

\* A procedure that ended with an error had a local with the name of a
\* caller variable and another value.
C1_Witness ==
    /\ ProcReturned
    /\ obs.r = RetError
    /\ \E n \in ProcLocals :
           /\ Bound(obs.act.before, CallerFrame, n)
           /\ Bound(tcl, CallerFrame, n)
           /\ ValueOf(tcl, ProcFrame, n) # ValueOf(tcl, CallerFrame, n)
           /\ ValueOf(tcl, CallerFrame, n) = ValueOf(obs.act.before, CallerFrame, n)

\* The step just taken is `set name value` run by cmdSet in frame obs.env.
Assigned == obs.ev = "cmdSet" /\ Len(obs.args) = 3

\* C2: while a link made by upvar from name y of a procedure's frame to an
\* existing variable x of the caller's frame stands, every `set y V` in the
\* procedure makes x read V in the caller's frame and every `set x V` in
\* the caller's frame makes y read V in the procedure.
C2_AliasTransparency ==
    Assigned =>
        \A a \in tcl.aliases :
            /\ (a.g = obs.env /\ a.y = obs.args[2]) =>
                   Bound(tcl, a.h, a.x) /\ ValueOf(tcl, a.h, a.x) = obs.args[3]
            /\ (a.h = obs.env /\ a.x = obs.args[2]) =>
                   Bound(tcl, a.g, a.y) /\ ValueOf(tcl, a.g, a.y) = obs.args[3]

\* The caller's variable was assigned in the caller's frame while a
\* procedure one call below holds a link to it.
C2_Witness ==
    /\ Assigned
    /\ \E a \in tcl.aliases :
           /\ a.h = obs.env
           /\ a.x = obs.args[2]
           /\ tcl.frames[a.g].parent = a.h
           /\ ValueOf(tcl, a.g, a.y) = obs.args[3]

\* The step just taken is the return of cmdCatch; obs.r and obs.res are the
\* status and the last-result of its script.
Caught == obs.ev = "cmdCatchResume"

\* C3: whatever status its script ends with, catch returns ok with
\* last-result 0 if the script returned ok and 1 otherwise, and the
\* variable named, if any, holds the last-result of the script.
C3_CatchNeverPropagates ==
    Caught =>
        /\ pc = "ret"
        /\ ret = RetOk
        /\ tcl.result = (IF obs.r = RetOk THEN <<"0">> ELSE <<"1">>)
        /\ Len(obs.act.args) = 3 =>
               /\ Bound(tcl, tcl.env, obs.act.args[3])
               /\ ValueOf(tcl, tcl.env, obs.act.args[3]) = obs.res

\* catch has stopped an exit and stored its code.
C3_Witness ==
    /\ Caught
    /\ obs.r = RetExit
    /\ Len(obs.act.args) = 3
    /\ ValueOf(tcl, tcl.env, obs.act.args[3]) = obs.res
    /\ obs.res # <<>>

\* The words of the parameter list that userProc binds.
RECURSIVE Formals(_)
Formals(list) ==
    IF list = <<>> \/ list[1] = <<>> THEN <<>> ELSE <<list[1]>> \o Formals(Tail(list))

\* The step just taken is a call of userProc that pushed its frame.
ProcCalled == obs.ev = "userProc" /\ pc # "panic"

\* C4: when a user procedure or uplevel returns, with any status, the
\* current frame and the depth are those of before the command; and the
\* frame a call pushes holds every parameter binding when it becomes current.
C4_FrameRestored ==
    /\ obs.ev \in {"userProcResume", "cmdUpLevelResume"} =>
           /\ tcl.env = obs.act.before.env
           /\ tcl.level = obs.act.before.level
    /\ ProcCalled =>
           LET formals == Formals(ParseArgs(tcl.cmds[obs.args[1]].args).list)
           IN /\ tcl.env = Len(tcl.frames)
              /\ tcl.env # obs.env
              /\ \A i \in 1..Len(formals) : Bound(tcl, tcl.env, formals[i])
              /\ \A i \in 1..Len(formals) :
                     (\A j \in 1..Len(formals) : formals[j] = formals[i] => j = i) =>
                         ValueOf(tcl, tcl.env, formals[i]) = obs.args[i + 1]

\* uplevel has returned an error from a script it ran in another frame.
C4_Witness ==
    /\ obs.ev = "cmdUpLevelResume"
    /\ obs.r = RetError
    /\ obs.env # tcl.env
    /\ tcl.env = obs.act.before.env

\* C5: in every state the depth counter is the number of parent links from
\* the current frame to the top-level frame, also inside uplevel, so that
\* the top-relative level 0 is the top-level frame.
C5_DepthIsLinks ==
    /\ tcl.level = Links(tcl.frames, tcl.env)
    /\ tcl.frames[getLevel(tcl, TRUE, 0)].parent = 0

\* The step just taken returned code to the caller of the activation that
\* was on top.
Ended(code) == pc = "ret" /\ ret = code /\ Len(stack) = obs.depth - 1

Evaluates(str, at) ==
    IF str = <<>>
    THEN /\ pc = "ret"
         /\ ret = RetOk
         /\ Len(stack) = obs.depth
         /\ stack[obs.depth] = [obs.act EXCEPT !.at = at]
    ELSE /\ pc = "run"
         /\ Len(stack) = obs.depth + 1
         /\ stack[obs.depth] = [obs.act EXCEPT !.at = at]
         /\ stack[obs.depth + 1].k = "eval"
         /\ stack[obs.depth + 1].str = str
         /\ stack[obs.depth + 1].p.pos = 0

\* The step just taken is the return of the body to the loop handler k.
BodyReturned(k) == obs.ev = k \o "Resume" /\ obs.act.at = "body"

\* C7: when the body of while or for returns continue the loop goes on as
\* after ok: while tests its condition again, for runs its incr script and
\* then tests its condition; when it returns break the loop command
\* returns ok; when it returns return, error or exit the loop command
\* returns that status at once.
C7_LoopStatus ==
    /\ BodyReturned("cmdWhile") =>
           IF obs.r \in {RetOk, RetContinue} THEN Evaluates(obs.act.cond, "cond")
           ELSE Ended(IF obs.r = RetBreak THEN RetOk ELSE obs.r)
    /\ BodyReturned("cmdFor") =>
           IF obs.r \in {RetOk, RetContinue} THEN Evaluates(obs.act.incr, "incr")
           ELSE Ended(IF obs.r = RetBreak THEN RetOk ELSE obs.r)
    /\ (obs.ev = "cmdForResume" /\ obs.act.at = "incr" /\ obs.r = RetOk) =>
           Evaluates(obs.act.cond, "cond")

\* The body of for has returned continue and the incr script is next.
C7_Witness ==
    /\ BodyReturned("cmdFor")
    /\ obs.r = RetContinue
    /\ obs.act.incr # <<>>
    /\ Evaluates(obs.act.incr, "incr")

\* The step just taken is the return of a loop body with a status that
\* ends the loop and carries a value.
BodyLeft ==
    /\ obs.r \in {RetReturn, RetError, RetExit}
    /\ \/ BodyReturned("cmdWhile")
       \/ BodyReturned("cmdFor")
       \/ obs.ev = "cmdForEachResume"

\* C8: when return V, error MSG or exit N ends the body of while, for or
\* foreach, the loop command returns the status with the last-result V,
\* MSG or N the body left.
C8_LoopKeepsResult ==
    BodyLeft => Ended(obs.r) /\ tcl.result = obs.res

\* The step just taken is the return of a [command] substitution to an
\* evaluation with noEval.
SubstReturned == obs.ev = "evalAfterSubst" /\ obs.act.p.options.noEval

\* The words of the evaluation with text added: a new word after a blank or
\* at the start, else the end of the last word.
WithText(a, text) ==
    IF a.prevToken \in {tokSpace, tokEOL} THEN Append(a.args, text)
    ELSE [a.args EXCEPT ![Len(a.args)] = @ \o text]

\* C9: in an evaluation with noEval a command substitution that returns
\* break ends the evaluation with ok and the words collected so far joined
\* by single spaces as last-result; one that returns continue or return
\* adds its last-result to the words as one that returns ok does and the
\* evaluation goes on from the same place; one that returns error or exit
\* ends the evaluation with that status.
C9_NoEvalSubst ==
    SubstReturned =>
        IF obs.r = RetBreak
        THEN Ended(RetOk) /\ tcl.result = Join(obs.act.args, <<" ">>)
        ELSE IF obs.r \in {RetError, RetExit}
        THEN Ended(obs.r) /\ tcl.result = obs.res
        ELSE /\ pc = "run"
             /\ Len(stack) = obs.depth
             /\ stack[obs.depth].p = obs.act.p
             /\ stack[obs.depth].args = WithText(obs.act, obs.res)

\* subst has ended on a break with two words collected.
C9_Witness ==
    /\ SubstReturned
    /\ obs.r = RetBreak
    /\ Len(obs.act.args) = 2
    /\ ret = RetOk
    /\ tcl.result = obs.act.args[1] \o <<" ">> \o obs.act.args[2]

\* The parser of an evaluation of str at the position pos between commands.
ParserAt(a, pos) ==
    [newParser(a.str, a.p.options)
         EXCEPT !.pos = pos, !.nextPos = pos + 1, !.char = CharAt(a.str, pos)]

\* The places of the $variable and [command] tokens from parser p up to
\* the position end, in the order of the text.
RECURSIVE SubstStarts(_, _)
SubstStarts(p, end) ==
    IF p.pos >= end \/ getToken(p).panic \/ ~getToken(p).ok
       \/ getToken(p).token = tokEOF \/ getToken(p).pos <= p.pos
    THEN <<>>
    ELSE (IF getToken(p).token \in {tokVar, tokCmd} THEN <<getToken(p).start>> ELSE <<>>)
             \o SubstStarts(getToken(p), end)

\* The evaluation on top is about to fail: a command or a substitution has
\* returned a status that is not ok, or the next token does not parse or
\* names a variable that is not bound.
Failing ==
    /\ stack # <<>>
    /\ Top(Machine).k = "eval"
    /\ \/ /\ pc = "ret"
          /\ ret # RetOk
          /\ \/ Top(Machine).wait = "cmd"
             \/ ~Top(Machine).p.options.noEval
             \/ ret \in {RetError, RetExit}
       \/ /\ Running
          /\ ~Scanned.panic
          /\ \/ ~Scanned.ok
             \/ Scanned.token = tokVar /\ ~Bound(tcl, tcl.env, GetString(Scanned))

\* The evaluation on top returns the status; nothing the commands before
\* did is undone.
Stops ==
    /\ pc' = "ret"
    /\ stack' = SubSeq(stack, 1, Len(stack) - 1)
    /\ ret' = (IF pc = "ret" THEN ret ELSE RetError)
    /\ tcl'.frames = tcl.frames
    /\ tcl'.cells = tcl.cells
    /\ tcl'.cmds = tcl.cmds
    /\ tcl'.env = tcl.env
    /\ tcl'.level = tcl.level
    /\ pc = "ret" => tcl' = tcl

\* No evaluation that stays on the stack goes back in its text.
Forward ==
    \A i \in 1..Len(stack) :
        (i <= Len(stack') /\ stack[i].k = "eval") =>
            /\ stack'[i].k = "eval"
            /\ stack'[i].str = stack[i].str
            /\ stack'[i].p.pos >= stack[i].p.pos
            /\ stack'[i].cmdStart >= stack[i].cmdStart
            /\ stack'[i].cmdStart <= stack'[i].p.pos

\* At the dispatch of a command every substitution of its words has been
\* made, in the order of the text.
SubstitutedFirst ==
    (Running /\ AtEol /\ ~Top(Machine).p.options.noEval) =>
        /\ Top(Machine).cmdStart <= Scanned.start
        /\ Top(Machine).subs =
               SubstStarts(ParserAt(Top(Machine), Top(Machine).cmdStart), Scanned.start)

\* C10: an evaluation that dispatches commands takes them in the order of
\* the text, each after all the substitutions of its words from left to
\* right, and returns at the first command, substitution, parse failure or
\* unbound variable with a status that is not ok: it dispatches nothing
\* more, returns that status and leaves what the earlier commands did.
C10_EvalOrder ==
    /\ []SubstitutedFirst
    /\ [][Forward /\ (Failing => Stops)]_vars

\* An evaluation has returned the error of its second command and the
\* variable its first command set is still bound.
C10_Witness ==
    /\ obs.ev = "evalAfterCommand"
    /\ obs.r = RetError
    /\ Ended(RetError)
    /\ obs.act.cmdStart > 0
    /\ obs.act.p.pos < Len(obs.act.str)
    /\ Bound(tcl, tcl.env, <<"a">>)

\* The step just taken is a rename that returned ok.
Renamed == obs.ev = "cmdRename" /\ pc = "ret" /\ ret = RetOk

\* The step just taken dispatched a name that rename has taken from its
\* command.
OldInvoked == obs.ev = "nil"

\* C11: after rename old new the name new has the handler and invoking old
\* returns error with last-result `unable to find command: old`; after
\* rename old {} the command is in the table under no name.
C11_RenameMoves ==
    /\ (Renamed /\ Len(obs.args) = 3 /\ obs.args[3] # <<>>) =>
           /\ obs.args[3] \in DOMAIN tcl.cmds
           /\ tcl.cmds[obs.args[3]] # NilCmd
    /\ (Renamed /\ Len(obs.args) = 3 /\ obs.args[3] = <<>>) =>
           <<>> \notin DOMAIN tcl.cmds
    /\ OldInvoked =>
           /\ pc = "ret"
           /\ ret = RetError
           /\ tcl.result = <<"u", "n", "a", "b", "l", "e", " ", "t", "o", " ", "f", "i", "n", "d", " ", "c", "o", "m", "m", "a", "n", "d", ":", " ">> \o obs.args[1]

\* The last-result of a read of the unbound variable name.
NotFound(name) == <<"v", "a", "l", "u", "e", ":", " ">> \o name \o <<" ", "n", "o", "t", " ", "f", "o", "u", "n", "d">>

\* The next step reads the unbound variable name: eval takes a $name token,
\* or doCommand calls cmdSet with a name and no value.
ReadsUnbound(name) ==
    /\ Running
    /\ ~Bound(tcl, tcl.env, name)
    /\ \/ /\ ~Scanned.panic
          /\ Scanned.ok
          /\ Scanned.token = tokVar
          /\ GetString(Scanned) = name
       \/ /\ AtEol
          /\ ~Top(Machine).p.options.noEval
          /\ Handler = "cmdSet"
          /\ Top(Machine).args = <<<<"s", "e", "t">>, name>>

\* The names read in the scripts and one more.
ReadNames == {<<"x">>, <<"q">>, <<"n", "o", "p", "e">>, <<"a">>, <<"z", "z">>}

UnsetsAlias(a) ==
    /\ Running
    /\ AtEol
    /\ ~Top(Machine).p.options.noEval
    /\ Handler = "cmdUnSet"
    /\ a.g = tcl.env
    /\ \E i \in 2..Len(Top(Machine).args) : Top(Machine).args[i] = a.y
    /\ ~(a.h = tcl.env /\ \E i \in 2..Len(Top(Machine).args) : Top(Machine).args[i] = a.x)

\* C13: unset of a name that upvar or global linked to a variable of
\* another frame, or to another variable of the same frame, removes that
\* name from the frame only: the variable is still bound where it was, to
\* the same cell with the same value, and a read of the name in the frame
\* fails with value-not-found.
C13_UnsetAlias ==
    [][\A a \in tcl.aliases :
           UnsetsAlias(a) =>
               /\ tcl'.env = tcl.env
               /\ ~Bound(tcl', a.g, a.y)
               /\ GetVarValue(tcl', a.y) = [code |-> RetError, value |-> NotFound(a.y)]
               /\ Bound(tcl', a.h, a.x)
               /\ CellOf(tcl', a.h, a.x) = CellOf(tcl, a.h, a.x)
               /\ ValueOf(tcl', a.h, a.x) = ValueOf(tcl, a.h, a.x)]_vars

\* unset y has run in a procedure after `upvar 1 x y; set y 5`: y is not
\* bound there and x of the caller holds the 5 written through y.
C13_Witness ==
    /\ obs.ev = "cmdUnSet"
    /\ obs.args = <<<<"u", "n", "s", "e", "t">>, <<"y">>>>
    /\ tcl.env # 1
    /\ ~Bound(tcl, tcl.env, <<"y">>)
    /\ Bound(tcl, tcl.frames[tcl.env].parent, <<"x">>)
    /\ ValueOf(tcl, tcl.frames[tcl.env].parent, <<"x">>) = <<"5">>
    /\ tcl.cells[CellOf(tcl, tcl.frames[tcl.env].parent, <<"x">>)].wf = tcl.env
    /\ tcl.cells[CellOf(tcl, tcl.frames[tcl.env].parent, <<"x">>)].wn = <<"y">>

\* The step just taken is `info locals` run by cmdInfo inside a procedure,
\* in frame obs.env.
InfoLocals ==
    /\ obs.ev = "cmdInfo"
    /\ obs.args = <<<<"i", "n", "f", "o">>, <<"l", "o", "c", "a", "l", "s">>>>
    /\ obs.level > 0
    /\ pc # "panic"

\* The names the result of the step reports.
Reported ==
    IF tcl.result = <<>> THEN {}
    ELSE {ParseArgs(tcl.result).list[i] : i \in 1..Len(ParseArgs(tcl.result).list)}

\* The names of the frame that were made in it (parameters and variables
\* first assigned there) and that no upvar or global installed.
CreatedHere ==
    {n \in DOMAIN tcl.frames[obs.env].vars :
        /\ tcl.cells[CellOf(tcl, obs.env, n)].owner = obs.env
        /\ \A a \in tcl.aliases : ~(a.g = obs.env /\ a.y = n)}

\* C14: inside a procedure `info locals` reports exactly the names made in
\* the current frame, the formal parameters and every variable first
\* assigned there, and never a name that upvar or global installed.
C14_InfoLocals == InfoLocals => Reported = CreatedHere

\* The step just taken is the call of a user procedure by userProc with the
\* actuals its formals need: one for each formal before a last formal
\* `args`, one for each formal otherwise.
ProcFormals == Formals(ParseArgs(tcl.cmds[obs.args[1]].args).list)

Variadic == ProcFormals # <<>> /\ ProcFormals[Len(ProcFormals)] = <<"a", "r", "g", "s">>

Fixed == IF Variadic THEN Len(ProcFormals) - 1 ELSE Len(ProcFormals)

ProcApplied == obs.ev = "userProc" /\ Len(obs.args) - 1 >= Fixed

\* C15: a call binds each formal to the actual at its position, and a last
\* formal named `args` to all the remaining actuals joined by single spaces,
\* the empty string when none remain.
C15_ArgsBinding ==
    ProcApplied =>
        /\ pc # "panic"
        /\ \A i \in 1..Fixed :
               /\ Bound(tcl, tcl.env, ProcFormals[i])
               /\ ValueOf(tcl, tcl.env, ProcFormals[i]) = obs.args[i + 1]
        /\ Variadic =>
               /\ Bound(tcl, tcl.env, <<"a", "r", "g", "s">>)
               /\ ValueOf(tcl, tcl.env, <<"a", "r", "g", "s">>) =
                      Join(SubSeq(obs.args, Fixed + 2, Len(obs.args)), <<" ">>)

\* C16: for any words w0 .. w(n-1), with L the result of `list w0 ..
\* w(n-1)`, `llength L` returns n and `lindex L i` returns wi verbatim for
\* every i with 0 <= i < n.
C16_ListIndex ==
    /\ obs.ev = "cmdList" => ~obs.res.panic /\ obs.res.r = RetOk
    /\ obs.ev = "cmdLLength" =>
           /\ ~obs.res.panic
           /\ obs.res.r = RetOk
           /\ obs.res.result = ConvertNumberToString(Len(obs.args.words), 10)
    /\ obs.ev = "cmdLIndex" =>
           /\ ~obs.res.panic
           /\ obs.res.r = RetOk
           /\ obs.res.result = obs.args.words[obs.act.i + 1]

\* C17: for every string v, ParseArgs(StringEscape(v)) is the one-element
\* list [v]: the word-safe escape of v parses back to v as a single word.
C17_EscapeRoundTrip ==
    obs.ev = "StringEscape" =>
        /\ ~obs.res.panic
        /\ obs.res.list = <<obs.args.v>>

\* C18: for every integer n and each base b in {8, 10, 16},
\* ConvertStringToNumber applied to ConvertNumberToString(n, b) succeeds,
\* consumes the whole string and returns n.
C18_NumberRoundTrip ==
    /\ obs.ev # "panic"
    /\ obs.ev = "ConvertStringToNumber" =>
           /\ obs.res.ok
           /\ obs.res.pos = Len(obs.act.str)
           /\ obs.res.val = obs.args.n

\* C19: for every pattern, every target and every depth budget d >= 0,
\* Match returns an integer without reading outside the pattern or the
\* target, and returns a negative value whenever the budget was exhausted
\* before a decision was reached.
C19_MatchTotal ==
    obs.ev = "Match" =>
        /\ ~obs.res.panic
        /\ obs.res.spent => obs.res.r < 0

\* The whole of t matches p, with `*` for zero or more characters and `?`
\* for exactly one.
RECURSIVE Globs(_, _)
Globs(p, t) ==
    IF p = <<>> THEN t = <<>>
    ELSE IF p[1] = "*" THEN Globs(Tail(p), t) \/ (t # <<>> /\ Globs(p, Tail(t)))
    ELSE t # <<>> /\ (p[1] = "?" \/ p[1] = t[1]) /\ Globs(Tail(p), Tail(t))

\* The step just taken is Match on a pattern of literal characters, `?` and
\* `*` with a depth above the number of its `*`.
SimpleMatch ==
    /\ obs.ev = "Match"
    /\ \A i \in 1..Len(obs.args.pat) : obs.args.pat[i] \in {"a", "b", "?", "*"}
    /\ obs.args.depth > Cardinality({i \in 1..Len(obs.args.pat) : obs.args.pat[i] = "*"})

\* C20: for patterns of literal characters, `?` and `*` and a sufficient
\* depth, Match(p, t) returns a positive count if and only if the whole of
\* a non-empty target t matches p, and 0 when t does not match p and when
\* p and t are both empty.
C20_MatchGlob ==
    SimpleMatch =>
        /\ ~obs.res.panic
        /\ IF obs.args.target # <<>> /\ Globs(obs.args.pat, obs.args.target)
           THEN obs.res.r > 0
           ELSE obs.res.r = 0

\* ------------------------------------------------------------------ C22

\* The step was `upvar` or `uplevel` with a level word.
LevelGiven ==
    /\ obs.ev \in {"cmdUpVar", "cmdUpLevel"}
    /\ Len(obs.args) > (IF obs.ev = "cmdUpVar" THEN 3 ELSE 2)
    /\ obs.args[2] # <<>>

\* The level word of the step: #n is relative to the top-level frame.
LevelWord ==
    LET top == obs.args[2][1] = "#"
        n == ConvertStringToNumber(obs.args[2], 10, IF top THEN 1 ELSE 0)
    IN [top |-> top, ok |-> n.ok, n |-> n.val]

\* The level of the step lies beyond the top-level frame.
BeyondTop == LevelGiven /\ LevelWord.ok /\ LevelWord.n > obs.level

\* C22: `upvar n ..` and `uplevel n ..` with a level n, relative or
\* top-relative (#n), greater than the current depth find no frame and
\* return error `not valid level number`.
C22_LevelBeyondTop ==
    BeyondTop =>
        /\ pc = "ret"
        /\ ret = RetError
        /\ tcl.result = <<"n", "o", "t", " ", "v", "a", "l", "i", "d", " ", "l", "e", "v", "e", "l", " ", "n", "u", "m", "b", "e", "r">>

\* ------------------------------------------------------------------ C23

\* cmdMath returned from `expr a op b` of three words with a relational
\* operator, after the eval of its words ended ok.
Relational ==
    /\ obs.ev = "cmdMathResume"
    /\ obs.r = RetOk
    /\ Len(obs.act.args) = 4
    /\ obs.act.args[3] \in relationOprs

\* The word is an integer from its first to its last character.
IsInteger(w) ==
    /\ ConvertStringToNumber(w, 10, 0).ok
    /\ ConvertStringToNumber(w, 10, 0).pos = Len(w)

IntegerOf(w) == ConvertStringToNumber(w, 10, 0).val

\* op holds between x and y, for integers as for the results of Compare.
Holds(op, x, y) ==
    \/ op = <<">">> /\ x > y
    \/ op = <<">", "=">> /\ x >= y
    \/ op = <<"<">> /\ x < y
    \/ op = <<"<", "=">> /\ x <= y
    \/ op = <<"=", "=">> /\ x = y
    \/ op = <<"!", "=">> /\ x # y

Truth(b) == IF b THEN <<"1">> ELSE <<"0">>

\* C23: `expr a op b` with a relational operator compares a and b as
\* strings when neither parses as an integer, numerically when both parse,
\* and returns error `not a number` when exactly one of them parses.
C23_Relational ==
    Relational =>
        LET a == obs.act.args[2]
            op == obs.act.args[3]
            b == obs.act.args[4]
        IN /\ pc = "ret"
           /\ (~IsInteger(a) /\ ~IsInteger(b)) =>
                  ret = RetOk /\ tcl.result = Truth(Holds(op, Compare(a, b), 0))
           /\ (IsInteger(a) /\ IsInteger(b)) =>
                  ret = RetOk /\ tcl.result = Truth(Holds(op, IntegerOf(a), IntegerOf(b)))
           /\ (IsInteger(a) # IsInteger(b)) =>
                  ret = RetError /\ tcl.result = <<"n", "o", "t", " ", "a", " ", "n", "u", "m", "b", "e", "r">>

\* ------------------------------------------------------------------ C24

\* cmdMath returned from `expr OP b` of an operator word and an integer,
\* after the eval of its words ended ok.
Unary ==
    /\ obs.ev = "cmdMathResume"
    /\ obs.r = RetOk
    /\ Len(obs.act.args) = 3
    /\ obs.act.args[2] \in UnaryWords
    /\ IsInteger(obs.act.args[3])

\* What the unary operator op makes of b.
UnaryValue(op, b) ==
    CASE op \in {<<"-">>, <<"n", "e", "g">>} -> -b
      [] op = <<"+">> -> b
      [] op = <<"n", "o", "t">> -> IF b = 0 THEN 1 ELSE 0
      [] op = <<"i", "n", "v">> -> -1 - b
      [] op = <<"a", "b", "s">> -> IF b < 0 THEN -b ELSE b
      [] op = <<"b", "o", "o", "l">> -> IF b # 0 THEN 1 ELSE 0

\* C24: `expr OP b` returns -b for `-` and `neg`, b for `+`, the logical
\* negation for `not`, the bitwise complement for `inv`, the absolute value
\* for `abs`, 0 or 1 for `bool`, and error `invalid operator` for any
\* other operator word.
C24_Unary ==
    Unary =>
        LET op == obs.act.args[2]
            b == IntegerOf(obs.act.args[3])
        IN /\ pc = "ret"
           /\ IF op \in {<<"-">>, <<"n", "e", "g">>, <<"+">>, <<"n", "o", "t">>, <<"i", "n", "v">>, <<"a", "b", "s">>, <<"b", "o", "o", "l">>}
              THEN ret = RetOk /\ tcl.result = ConvertNumberToString(UnaryValue(op, b), 10)
              ELSE ret = RetError /\ tcl.result = <<"i", "n", "v", "a", "l", "i", "d", " ", "o", "p", "e", "r", "a", "t", "o", "r">>

\* ------------------------------------------------------------------ C25

\* The next step is `global g` inside a procedure.
GlobalInProc ==
    /\ Running
    /\ AtEol
    /\ ~Top(Machine).p.options.noEval
    /\ Handler = "cmdGlobal"
    /\ Len(Top(Machine).args) = 2
    /\ tcl.level > 0

\* The names of the frame whose local flag is set.
LocalNames(frame) == {n \in DOMAIN frame.local : frame.local[n]}

\* `upvar #0 g g` in the place of `global g`.
asUpVar(m, args) == cmdUpVar(m, <<<<"u", "p", "v", "a", "r">>, <<"#", "0">>, args[2], args[2]>>)

\* C25: inside a procedure `global g` leaves the bindings and the local
\* flags of the current frame, and returns the status, that
\* `upvar #0 g g` leaves and returns from the same state.
C25_GlobalIsUpVar ==
    [][GlobalInProc =>
          LET m == evalCommand(Machine, Scanned, asUpVar)
          IN /\ tcl'.frames[tcl'.env].vars = m.tcl.frames[m.tcl.env].vars
             /\ LocalNames(tcl'.frames[tcl'.env]) = LocalNames(m.tcl.frames[m.tcl.env])
             /\ ret' = m.ret]_vars

\* ------------------------------------------------------------------ C26

\* The number of conditions of `if c1 b1 elseif c2 b2 .. else bE`.
Conditions(args) == Len(args) \div 3

HasElse(args) == Len(args) % 3 = 2

\* The words are conditions and bodies joined by elseif, with else last.
IfChain(args) ==
    /\ Len(args) >= 3
    /\ Len(args) % 3 \in {0, 2}
    /\ \A k \in 1..(Conditions(args) - 1) : args[3 * k + 1] = <<"e", "l", "s", "e", "i", "f">>
    /\ HasElse(args) => args[Len(args) - 1] = <<"e", "l", "s", "e">>
    /\ \A k \in 2..Len(args) : args[k] # <<>>

\* The result of a condition counts as true.
CondTrue(res) ==
    IF IsInteger(res) THEN IntegerOf(res) # 0 ELSE res \in truthValue

\* cmdIf, whose activation is at depth d of the stack, has called eval on
\* str.
IfEvaluates(d, str) ==
    /\ pc = "run"
    /\ Len(stack) = d + 1
    /\ stack[d].k = "cmdIf"
    /\ stack[d + 1].k = "eval"
    /\ stack[d + 1].str = str
    /\ stack[d + 1].p.pos = 0

\* C26: `if` evaluates its conditions from left to right, each only after
\* the one before it was false, evaluates the body of the first true one
\* and nothing after it, evaluates the else body when no condition is true
\* and no body when there is none, and returns the non-ok status of a
\* condition or the status of the chosen body.
C26_IfChain ==
    /\ (obs.ev = "cmdIf" /\ IfChain(obs.args)) =>
           IfEvaluates(obs.depth + 1, <<"e", "x", "p", "r", " ">> \o obs.args[2])
    /\ (obs.ev = "cmdIfResume" /\ IfChain(obs.act.args)) =>
           LET args == obs.act.args
               k == (obs.act.i + 2) \div 3
           IN IF obs.act.at = "body" \/ obs.r # RetOk THEN Ended(obs.r)
              ELSE IF CondTrue(obs.res) THEN IfEvaluates(obs.depth, args[3 * k])
              ELSE IF k < Conditions(args)
              THEN IfEvaluates(obs.depth, <<"e", "x", "p", "r", " ">> \o args[3 * k + 2])
              ELSE IF HasElse(args) THEN IfEvaluates(obs.depth, args[Len(args)])
              ELSE Ended(RetOk)

\* The second condition is evaluated after the first was false, its body
\* is chosen, and the body returned to `if`, which returns its status.
C26_Witness ==
    /\ obs.ev = "cmdIfResume"
    /\ IfChain(obs.act.args)
    /\ Conditions(obs.act.args) = 2
    /\ HasElse(obs.act.args)
    /\ obs.act.i = 4
    /\ obs.act.at = "body"
    /\ Ended(RetOk)

\* ------------------------------------------------------------------ C27

\* The elements of the list word L; the empty word has none.
Elements(L) == IF L = <<>> THEN <<>> ELSE ParseArgs(L).list

\* The pairs (V_i, L_i) of `foreach V_1 L_1 .. body`, nothing consumed.
Pairs(args) ==
    [i \in 1..((Len(args) - 2) \div 2) |->
        [vars |-> Elements(args[2 * i]), list |-> Elements(args[2 * i + 1]), index |-> 0]]

\* `foreach` with pairs of a variable list and a value list, the
\* variables distinct, and a body.
ForEachPairs(args) ==
    /\ Len(args) >= 4
    /\ Len(args) % 2 = 0
    /\ args[Len(args)] # <<>>
    /\ \A i \in 1..((Len(args) - 2) \div 2) :
           /\ ~ParseArgs(args[2 * i]).panic
           /\ ~ParseArgs(args[2 * i + 1]).panic
           /\ Elements(args[2 * i]) # <<>>
    /\ \A i, k \in DOMAIN Pairs(args) :
           \A j \in DOMAIN Pairs(args)[i].vars, l \in DOMAIN Pairs(args)[k].vars :
               Pairs(args)[i].vars[j] = Pairs(args)[k].vars[l] => (i = k /\ j = l)

\* From lists, foreach (its activation at depth d) makes one more pass when
\* a value list has an element left: every variable has the next element
\* of its list, or {} when there is none, the elements are consumed and
\* the body is evaluated; it returns ok without a pass when none is left.
NextPass(lists, body, d) ==
    IF \E i \in DOMAIN lists : lists[i].index < Len(lists[i].list)
    THEN /\ pc = "run"
         /\ Len(stack) = d + 1
         /\ stack[d].k = "cmdForEach"
         /\ stack[d + 1].k = "eval"
         /\ stack[d + 1].str = body
         /\ stack[d + 1].p.pos = 0
         /\ \A i \in DOMAIN lists :
                LET l == lists[i]
                    n == Len(l.vars)
                IN /\ stack[d].lists[i].vars = l.vars
                   /\ stack[d].lists[i].list = l.list
                   /\ stack[d].lists[i].index =
                          IF l.index + n <= Len(l.list) THEN l.index + n ELSE Len(l.list)
                   /\ \A j \in 1..n :
                          /\ Bound(tcl, tcl.env, l.vars[j])
                          /\ ValueOf(tcl, tcl.env, l.vars[j]) =
                                 IF l.index + j <= Len(l.list) THEN l.list[l.index + j]
                                 ELSE <<"{", "}">>
    ELSE /\ pc = "ret"
         /\ ret = RetOk
         /\ Len(stack) = d - 1

\* C27: `foreach` evaluates its body once for every slice of |V_i| elements
\* of the longest-running value list, max ceil(llength(L_i) / |V_i|) times
\* and not at all when every value list is empty, each time with every
\* variable at the next element of its list or {} once that is exhausted.
C27_ForEach ==
    /\ (obs.ev = "cmdForEach" /\ ForEachPairs(obs.args)) =>
           NextPass(Pairs(obs.args), obs.args[Len(obs.args)], obs.depth + 1)
    /\ (obs.ev = "cmdForEachResume" /\ obs.r \in {RetOk, RetContinue}) =>
           NextPass(obs.act.lists, obs.act.body, obs.depth)

\* ------------------------------------------------------------------ C28

\* The options of the `switch` of the step and the index of its value.
SwitchOptions == switchOptions(obs.args, 1, [i |-> 1, exact |-> TRUE, regexpr |-> FALSE])

\* The words after the value: the patterns and bodies given inline, or the
\* elements of the single list.
SwitchWords ==
    LET rest == SubSeq(obs.args, SwitchOptions.i + 2, Len(obs.args))
    IN IF Len(rest) = 1 THEN Elements(rest[1]) ELSE rest

\* The step was `switch ?options? value` with one or more pattern/body
\* pairs, -exact or -glob, the glob patterns of letters, `?` and `*`, the
\* last body not `-`.
SwitchPairs ==
    /\ obs.ev = "cmdSwitch"
    /\ SwitchOptions.i < Len(obs.args)
    /\ ~SwitchOptions.regexpr
    /\ Len(obs.args) - SwitchOptions.i - 1 = 1 => ~ParseArgs(obs.args[Len(obs.args)]).panic
    /\ Len(SwitchWords) >= 2
    /\ Len(SwitchWords) % 2 = 0
    /\ SwitchWords[Len(SwitchWords)] # <<"-">>
    /\ \A k \in 1..Len(SwitchWords) : SwitchWords[k] # <<>>
    /\ \A k \in 1..(Len(SwitchWords) \div 2) :
           \A c \in 1..Len(SwitchWords[2 * k - 1]) :
               SwitchWords[2 * k - 1][c] \notin {"[", "]", "\\"}

\* The pattern of pair k matches the value.
PatternMatches(k) ==
    LET p == SwitchWords[2 * k - 1]
        v == obs.args[SwitchOptions.i + 1]
    IN \/ p = <<"d", "e", "f", "a", "u", "l", "t">>
       \/ SwitchOptions.exact /\ p = v
       \/ ~SwitchOptions.exact /\ Globs(p, v)

\* The first pair whose pattern matches, 0 when there is none.
FirstMatch ==
    LET at == {k \in 1..(Len(SwitchWords) \div 2) : PatternMatches(k)}
    IN IF at = {} THEN 0 ELSE CHOOSE k \in at : \A j \in at : k <= j

\* The first body from pair k on that is not `-`.
BodyFrom(k) ==
    LET at == {j \in k..(Len(SwitchWords) \div 2) : SwitchWords[2 * j] # <<"-">>}
    IN SwitchWords[2 * (CHOOSE j \in at : \A l \in at : j <= l)]

\* C28: `switch` evaluates exactly one body, that of the first pattern in
\* order that matches the value (`default` always matches), after skipping
\* forward over bodies `-` to the next body that is not `-`, and returns
\* ok with the empty last-result when no pattern matches.
C28_Switch ==
    /\ SwitchPairs =>
           IF FirstMatch = 0
           THEN /\ pc = "ret"
                /\ ret = RetOk
                /\ tcl.result = <<>>
                /\ Len(stack) = obs.depth
           ELSE /\ pc = "run"
                /\ Len(stack) = obs.depth + 2
                /\ stack[obs.depth + 1].k = "cmdSwitch"
                /\ stack[obs.depth + 2].k = "eval"
                /\ stack[obs.depth + 2].str = BodyFrom(FirstMatch)
                /\ stack[obs.depth + 2].p.pos = 0
    /\ obs.ev = "cmdSwitchResume" => Ended(obs.r)

\* ------------------------------------------------------------------ C29

\* The step was `lsort ?options? L`.
Sorted == obs.ev = "cmdLSort"

ByInteger == \E i \in 1..Len(obs.args.opts) : obs.args.opts[i] = <<"-", "i", "n", "t", "e", "g", "e", "r">>

Decreasing == \E i \in 1..Len(obs.args.opts) : obs.args.opts[i] = <<"-", "d", "e", "c", "r", "e", "a", "s", "i", "n", "g">>

\* x goes before y, or they are equal, in the order asked for.
InOrder(x, y) ==
    LET c == IF ByInteger
             THEN (IF IntegerOf(x) < IntegerOf(y) THEN -1
                   ELSE IF IntegerOf(x) > IntegerOf(y) THEN 1 ELSE 0)
             ELSE Compare(x, y)
    IN IF Decreasing THEN c >= 0 ELSE c <= 0

Ordered(s) == \A i \in 1..(Len(s) - 1) : InOrder(s[i], s[i + 1])

\* How many times w occurs in s.
Count(s, w) == Cardinality({i \in 1..Len(s) : s[i] = w})

\* C29: `lsort` returns the elements of L, each as it was given and as
\* many times, in non-decreasing order, or non-increasing order with
\* -decreasing, of the strings or of the integer values; a list already in
\* order comes back as it is; -integer with an element that is not an
\* integer returns error.
C29_LSort ==
    Sorted =>
        LET L == obs.args.words
            out == Elements(obs.res.result)
        IN /\ ~obs.res.panic
           /\ IF ByInteger /\ \E i \in 1..Len(L) : ~IsInteger(L[i])
              THEN obs.res.r = RetError
              ELSE /\ obs.res.r = RetOk
                   /\ obs.res.result = Join(out, <<" ">>)
                   /\ Len(out) = Len(L)
                   /\ \A i \in 1..Len(L) : Count(out, L[i]) = Count(L, L[i])
                   /\ Ordered(out)
                   /\ Ordered(L) => out = L

\* ------------------------------------------------------------------ C30

\* The step was `lindex L ?index?`.
Indexed == obs.ev = "cmdLIndex" /\ obs.args.fn = "cmdLIndex"

\* The position the index word w names in a list of n elements.
Position(w, n) ==
    IF w = <<"e", "n", "d">> THEN n - 1
    ELSE IF Len(w) > 4 /\ SubSeq(w, 1, 4) = <<"e", "n", "d", "-">>
    THEN n - 1 - IntegerOf(SubSeq(w, 5, Len(w)))
    ELSE IntegerOf(w)

\* C30: `lindex L` and `lindex L {}` return L as it is; `lindex L i`
\* returns the empty string with status ok when i, given as N, end or
\* end-N, is outside 0 .. llength(L)-1, also for the empty list.
C30_IndexOutside ==
    Indexed =>
        LET L == obs.args.L
            n == Len(Elements(L))
        IN IF obs.args.index = <<>> \/ obs.args.index = << <<>> >>
           THEN /\ ~obs.res.panic
                /\ obs.res.r = RetOk
                /\ obs.res.result = L
           ELSE Position(obs.args.index[1], n) \notin 0..(n - 1) =>
                    /\ ~obs.res.panic
                    /\ obs.res.r = RetOk
                    /\ obs.res.result = <<>>

\* ------------------------------------------------------------------ C21

\* The interpreter obs.tcls[i] as the heap holds it.
Interp(i) == load(obs.heap, obs.tcls[i])

\* C21: two interpreters made by NewTCL share nothing: a step of an
\* evaluation on one leaves the variables, the command table, the depth
\* and the last-result of the other as they were.
C21_ShareNothing ==
    [][\A j \in {1, 2} :
           j # obs'.on => load(obs'.heap, obs'.tcls[j]) = load(obs.heap, obs.tcls[j])]_vars

\* The first interpreter has defined f and set x; an evaluation on the
\* second has then returned with its own variables and without f or x.
C21_Witness ==
    /\ obs.ev = "EvalStringReturn"
    /\ obs.on = 2
    /\ <<"f">> \in DOMAIN Interp(1).cmds
    /\ <<"f">> \notin DOMAIN Interp(2).cmds
    /\ <<"x">> \in DOMAIN Interp(1).frames[1].vars
    /\ <<"x">> \notin DOMAIN Interp(2).frames[1].vars
    /\ <<"y">> \in DOMAIN Interp(2).frames[1].vars
    /\ Interp(1).result # Interp(2).result

\* ------------------------------------------------------------------ C31

\* The step was `lappend v e1 .. ek`.
Appended == obs.ev = "cmdLAppend" /\ obs.args.fn = "cmdLAppend"

\* What `llength L` returns.
LLength(L) == cmdLLength(Machine, <<<<"l", "l", "e", "n", "g", "t", "h">>, L>>).tcl.result

\* What `lindex L i` returns.
LIndex(L, i) == Returned(cmdLIndex(Machine, <<<<"l", "i", "n", "d", "e", "x">>, L, ConvertNumberToString(i, 10)>>))

\* C31: after `lappend v e1 .. ek` the length of $v is k more than before
\* (k when v was unset or empty), and lindex reads the last k elements back
\* as e1 .. ek, as they were given.
C31_LAppend ==
    Appended =>
        LET k == Len(obs.args.elems)
            n == IF obs.args.before = <<>> THEN 0
                 ELSE ConvertStringToNumber(LLength(obs.args.before[1]), 10, 0).val
            v == GetVarValue(tcl, <<"v">>)
        IN /\ obs.res.r = RetOk
           /\ v.code = RetOk
           /\ LLength(v.value) = ConvertNumberToString(n + k, 10)
           /\ \A j \in 1..k :
                  LIndex(v.value, n + j - 1) =
                      [panic |-> FALSE, r |-> RetOk, result |-> obs.args.elems[j]]

\* ------------------------------------------------------------------ C35

\* The step was `lset x i1 .. ik v`.
LSet == obs.ev = "cmdLSet" /\ obs.args.fn = "cmdLSet"

\* Every index of the path is inside the list it indexes.
RECURSIVE InsideList(_, _)
InsideList(L, path) ==
    \/ path = <<>>
    \/ /\ path[1] < Len(Elements(L))
       /\ InsideList(Elements(L)[path[1] + 1], Tail(path))

\* The list L with the element at the path replaced by v and every other
\* element as it was.
RECURSIVE Replaced(_, _, _)
Replaced(L, path, v) ==
    IF path = <<>> THEN v
    ELSE Join([j \in 1..Len(Elements(L)) |->
                  StringEscape(IF j = path[1] + 1
                               THEN Replaced(Elements(L)[j], Tail(path), v)
                               ELSE Elements(L)[j])],
              <<" ">>)

\* C35: `lset x i1 .. ik v` returns the value of x with the element at the
\* index path replaced by v and stores it in x; with an index outside its
\* list it returns error `list index out of range` and leaves x as it was.
C35_LSet ==
    LSet =>
        IF InsideList(obs.args.L, obs.args.path)
        THEN /\ Returned(obs.res) = [panic |-> FALSE, r |-> RetOk,
                           result |-> Replaced(obs.args.L, obs.args.path, obs.args.v)]
             /\ GetVarValue(tcl, <<"x">>) = [code |-> RetOk, value |-> obs.res.tcl.result]
        ELSE /\ Returned(obs.res) = [panic |-> FALSE, r |-> RetError,
                           result |-> <<"l", "i", "s", "t", " ", "i", "n", "d", "e", "x", " ", "o", "u", "t", " ", "o", "f", " ", "r", "a", "n", "g", "e">>]
             /\ GetVarValue(tcl, <<"x">>) = [code |-> RetOk, value |-> obs.args.L]

\* ------------------------------------------------------------------ C32

\* EvalString of the script that sets x to the word has returned.
WordDone(word) == obs.ev = "EvalStringReturn" /\ obs.act.str = WordScript(word)

\* The evaluation ended ok and x holds the value.
WordIs(value) == err = "nil" /\ GetVarValue(tcl, <<"x">>) = [code |-> RetOk, value |-> value]

\* The value of what comes before the `{`.
PrefixValue(pre) == IF pre \in {<<"$", "a">>, <<"[", "s", "e", "t", " ", "a", "]">>} THEN <<"v">> ELSE <<"p">>

\* C32: a `{` at the start of a word opens a braced word, whose value is
\* the text between the matching braces as it is (nested braces counted, an
\* escaped brace not, nothing substituted); a `{` after the first character
\* of a word is literal text.
C32_Braces ==
    /\ \A t \in BraceTexts : WordDone(<<"{">> \o t \o <<"}">>) => WordIs(t)
    /\ \A pre \in BracePrefixes :
           WordDone(pre \o <<"{", "q", "}">>) => WordIs(PrefixValue(pre) \o <<"{", "q", "}">>)

\* ------------------------------------------------------------------ C33

\* What a part of a word stands for: the value of a, or the part itself.
PartValue(part) == IF part \in {<<"$", "a">>, <<"$", "{", "a", "}">>} THEN <<"v">> ELSE part

WordValue(w) == Join([j \in 1..Len(w) |-> PartValue(w[j])], <<>>)

\* C33: `$a` and `${a}` are replaced by the value of a, the braces of
\* `${a}` adding nothing to the word, and a `$` not followed by a name
\* character or `{` adds the character `$`, in a bare word and between
\* double quotes.
C33_Variables ==
    \A w \in VarWords :
        /\ WordDone(Join(w, <<>>)) => WordIs(WordValue(w))
        /\ WordDone(<<"\"">> \o Join(w, <<>>) \o <<"\"">>) => WordIs(WordValue(w))

\* ------------------------------------------------------------------ C34

\* The step was `upvar ?level? name alias` with a level that names a frame.
UpVarOne ==
    /\ obs.ev = "cmdUpVar"
    /\ Len(obs.args) \in {3, 4}
    /\ Len(obs.args) = 4 => obs.args[2] # <<>> /\ LevelWord.ok
    /\ getLevel(tcl, Len(obs.args) = 4 /\ LevelWord.top,
                IF Len(obs.args) = 4 THEN LevelWord.n ELSE 1) # 0

\* The frame the level of the step names.
UpVarFrame ==
    tcl.frames[getLevel(tcl, Len(obs.args) = 4 /\ LevelWord.top,
                        IF Len(obs.args) = 4 THEN LevelWord.n ELSE 1)]

\* C34: `upvar` of a name the target frame does not have returns ok and a
\* read of the alias in the current frame then fails with value-not-found;
\* of a name the target frame has, the read of the alias returns the value
\* of that variable.
C34_UpVarMissing ==
    UpVarOne =>
        LET name == obs.args[Len(obs.args) - 1]
            alias == obs.args[Len(obs.args)]
        IN /\ pc = "ret"
           /\ ret = RetOk
           /\ IF name \in DOMAIN UpVarFrame.vars
              THEN GetVarValue(tcl, alias) =
                       [code |-> RetOk, value |-> tcl.cells[UpVarFrame.vars[name]].value]
              ELSE GetVarValue(tcl, alias) =
                       [code |-> RetError, value |-> <<"v", "a", "l", "u", "e", ":", " ">> \o alias \o <<" ", "n", "o", "t", " ", "f", "o", "u", "n", "d">>]

\* ------------------------------------------------------------------ C36

\* cmdMath went on from the eval of the words of `expr a / b`, a and b
\* integers.
Division ==
    /\ obs.ev = "cmdMathResume"
    /\ obs.r = RetOk
    /\ Len(obs.act.args) = 4
    /\ obs.act.args[3] = <<"/">>
    /\ IsInteger(obs.act.args[2])
    /\ IsInteger(obs.act.args[4])

\* The quotient of a and b truncated toward zero.
Truncated(a, b) ==
    LET q == (IF a < 0 THEN -a ELSE a) \div (IF b < 0 THEN -b ELSE b)
    IN IF (a < 0) # (b < 0) THEN -q ELSE q

\* C36: `expr a / b` returns the quotient truncated toward zero with
\* status ok when b is not 0, and returns status error with a diagnostic,
\* the evaluation going on, when b is 0.
C36_Division ==
    Division =>
        LET a == IntegerOf(obs.act.args[2])
            b == IntegerOf(obs.act.args[4])
        IN /\ pc = "ret"
           /\ IF b # 0
              THEN ret = RetOk /\ tcl.result = ConvertNumberToString(Truncated(a, b), 10)
              ELSE ret = RetError /\ tcl.result # <<>>

\* ------------------------------------------------------------------ C37

\* getToken has returned.
TokenReturned == obs.ev = "getToken"

\* C37: for every non-empty input and every combination of options the
\* calls of getToken end in tokEOF or in a parse error: no call reads the
\* input at an index that is not below its length, and every call that
\* returns a token before the end of the input moves the position forward.
C37_Scanner ==
    TokenReturned =>
        LET p == obs.res.p
        IN /\ ~p.panic
           /\ p.pos <= Len(p.str)
           /\ obs.res.calls <= Len(p.str) + 2
           /\ (p.ok /\ p.token # tokEOF) =>
                  \/ p.pos > obs.res.from
                  \/ obs.res.from = Len(p.str) /\ p.token = tokEOL

\* ------------------------------------------------------------------ C38

\* The loop of stringMap has gone through one pass.
MapStepped == obs.ev = "stringMapLoop"

\* C38: each pass of the loop of `string map mapping s` moves the index
\* forward by at least one character, an empty key in the mapping
\* included, so that the loop ends; and no pass reads the value of a key
\* past the end of a mapping with an odd number of elements.
C38_StringMap ==
    MapStepped =>
        /\ obs.res.f.k # "panic"
        /\ obs.res.f.index > obs.res.from

\* ------------------------------------------------------------------ C39

\* receiveTelnet has been given the last of the bytes that sendTelnet wrote.
Received == obs.ev = "receiveTelnet" /\ obs.res.wire = <<>>

\* C39: the bytes that sendTelnet(b) writes, given to receiveTelnet of a
\* receiver that starts in the Data state in any split, yield exactly b as
\* data and leave the receiver in the Data state, bytes equal to IAC
\* included.
C39_TelnetRoundTrip ==
    Received =>
        /\ ~obs.res.panic
        /\ obs.res.data = obs.args.output
        /\ obs.res.tn.state = tnStateData

====
